---- MODULE Spec2Model ----
(***************************************************************************)
(* Model of api/utils/munkiimport_linux.py: the loose version comparator   *)
(* (MunkiLooseVersion), the catalog index and matcher (make_catalog_db,    *)
(* find_matching_pkginfo), the disk-image workspace handling (mountdmg,    *)
(* unmountdmg, get_catalog_info_from_dmg) and the receipt extraction       *)
(* recursion (getReceiptInfo, getFlatPackageInfo, parsePkgRefs), the       *)
(* making of a pkginfo (makepkginfo), the item lookup and the package      *)
(* search on a disk image, and the exit code of the extraction tool.       *)
(*                                                                         *)
(* Python strings are modelled as sequences of one-character strings.      *)
(***************************************************************************)
EXTENDS Integers, Sequences, FiniteSets, TLC

VARIABLES
    \* ---- MunkiLooseVersion ----
    vpc,        \* position of the version scenario: "input", "built", "compared"
    va, vb,     \* the strings handed to MunkiLooseVersion(...)
    objs,       \* the constructed objects: <<[vstring, version], ...>>
    cmps,       \* results of _compare between the objects
    \* ---- make_catalog_db / find_matching_pkginfo ----
    cpc,          \* position in find_matching_pkginfo: "idle", "make", "match", "done"
    catalogitems, \* the decoded catalogs/all: a list of pkginfo dictionaries
    pkginfo,      \* the pkginfo handed to find_matching_pkginfo
    catdb,        \* the dictionary make_catalog_db returned
    caterr,       \* the exception make_catalog_db raised: "none", "read",
                  \* "decode", "TypeError"
    matched,      \* what find_matching_pkginfo returned
    \* ---- mountdmg / unmountdmg / get_catalog_info_from_dmg ----
    dpc,          \* position in get_catalog_info_from_dmg: "call", "mounted", "done"
    seven_zip,    \* shutil.which("7zz") or shutil.which("7z") found a tool
    dmg2img,      \* shutil.which("dmg2img") found the tool
    options,      \* which of options.pkgname and options.item are given
    workspace,    \* the directory made by tempfile.mkdtemp: "none", "exists", "removed"
    inner_dir,    \* its sub-directory _inner: "none", "exists", "removed"
    mountpoint,   \* what mountdmg returned: "", "workspace" or "inner"
    cataloginfo,  \* how the call ended: "pending", "entry" (a package),
                  \* "copy_from_dmg" (an item), "nothing" or the exception
    \* ---- getReceiptInfo / getFlatPackageInfo / parsePkgRefs ----
    rpc,          \* position of the receipt extraction: "idle", "running", "done"
    packages,     \* the flat packages on disk, by path
    stack,        \* the nested parsePkgRefs calls in progress, the innermost last
    receiptinfo,  \* the receipts getReceiptInfo returned for the outermost package
    pkgtmp,       \* how many directories made by tempfile.mkdtemp() at line 1333
                  \* exist
    stderr,       \* the messages getFlatPackageInfo printed, each with the
                  \* package it was called on
    npc,          \* position of the call of nameAndVersion: "idle", "done"
    aString,      \* its argument
    nameVers,     \* the (name, version) pair it returned
    \* ---- makepkginfo ----
    mpc,          \* position of the import: "idle", "called" or "off"
    installeritem,
                  \* the path handed to makepkginfo
    itemkind,     \* what is at that path: "file", "dir" or "missing"
    catinfo,      \* what get_catalog_info_from_dmg or _from_path returns for it
    nopkg,        \* options.nopkg
    now,          \* the reading of the clock, datetime.datetime.now()
    entries,      \* the pkginfos returned by successive calls of makepkginfo
    finds,        \* what find_matching_pkginfo returned for each of them
    \* ---- get_catalog_info_from_dmg with options.item ----
    ipc,          \* position of the item lookup: "mounted", "done" or "off"
    optitem,      \* options.item
    disk,         \* the files of the file system, each the names from the root down
    itemout,      \* how get_catalog_info_from_dmg ended and what it returned
    \* ---- the extraction tool ----
    xpc,          \* "off" outside the extraction scenario, "run" within it
    which7z,      \* shutil.which finds the extraction tool
    proc,         \* the subprocess.run of the tool: its returncode and what it left
    returned,     \* what mountdmg, getFlatPackageInfo and getPkgRestartInfo returned
    \* ---- the package search on a disk image ----
    spc,          \* "off" outside the search scenario, else "mounted" or "done"
    image,        \* the listing of the workspace mountdmg returned
    optpkgname,   \* options.pkgname in the search scenario
    picked        \* what get_catalog_info_from_dmg selected and returned

verVars == <<vpc, va, vb, objs, cmps>>
catVars == <<cpc, catalogitems, pkginfo, catdb, caterr, matched>>
dmgVars == <<dpc, seven_zip, dmg2img, options, workspace, inner_dir, mountpoint,
             cataloginfo>>
refVars == <<rpc, packages, stack, receiptinfo, pkgtmp, stderr>>
navVars == <<npc, aString, nameVers>>
mkVars == <<mpc, installeritem, itemkind, catinfo, nopkg, now, entries, finds>>
itVars == <<ipc, optitem, disk, itemout>>
exVars == <<xpc, which7z, proc, returned>>
srVars == <<spc, image, optpkgname, picked>>
vars == <<verVars, catVars, dmgVars, refVars, navVars, mkVars, itVars,
          exVars, srVars>>

(***************************************************************************)
(* Characters and strings                                                  *)
(***************************************************************************)

\* Python's ord() on the characters the model uses.
Ord(c) ==
    CASE c = " " -> 32 [] c = "'" -> 39 [] c = "-" -> 45 [] c = "." -> 46
      [] c = "/" -> 47
      [] c = "0" -> 48 [] c = "1" -> 49 [] c = "2" -> 50 [] c = "3" -> 51
      [] c = "4" -> 52 [] c = "5" -> 53 [] c = "6" -> 54 [] c = "7" -> 55
      [] c = "8" -> 56 [] c = "9" -> 57
      [] c = "E" -> 69 [] c = "F" -> 70 [] c = "I" -> 73 [] c = "N" -> 78
      [] c = "O" -> 79 [] c = "R" -> 82 [] c = "S" -> 83 [] c = "V" -> 86
      [] c = "_" -> 95
      [] c = "a" -> 97 [] c = "b" -> 98 [] c = "d" -> 100 [] c = "g" -> 103
      [] c = "k" -> 107 [] c = "o" -> 111 [] c = "p" -> 112 [] c = "s" -> 115
      [] c = "v" -> 118

IsDigit(c) == c \in {"0", "1", "2", "3", "4", "5", "6", "7", "8", "9"}

IsLower(c) == Ord(c) \in 97..122

\* Which alternative of component_re matches the character: \d+, [a-z]+, \.
\* or none ("o": text that re.split leaves between the matches).
CharClass(c) ==
    IF IsDigit(c) THEN "d"
    ELSE IF IsLower(c) THEN "l"
    ELSE IF c = "." THEN "." ELSE "o"

\* Length of the first run of a sequence of character classes: one single
\* dot, or as many characters of the first class as follow each other.
RunOf(classes) ==
    IF classes[1] = "." THEN 1
    ELSE CHOOSE k \in 1..Len(classes) :
            /\ \A i \in 1..k : classes[i] = classes[1]
            /\ (k < Len(classes) => classes[k + 1] # classes[1])

\* Length of the first piece re.split cuts off s: a whole run of digits, of
\* lowercase letters or of unmatched characters, or one single dot.
RunLen(s) == RunOf([i \in 1..Len(s) |-> CharClass(s[i])])

RECURSIVE ReSplit(_)
\* The first k characters of s as one piece, then the pieces of the rest.
SplitAt(s, k) == <<SubSeq(s, 1, k)>> \o ReSplit(SubSeq(s, k + 1, Len(s)))

\* component_re.split(vstring) without the empty strings.
ReSplit(s) == IF s = <<>> THEN <<>> ELSE SplitAt(s, RunLen(s))

RECURSIVE IntOf(_)
\* int(obj) for a string of decimal digits.
IntOf(s) ==
    IF s = <<>> THEN 0
    ELSE 10 * IntOf(SubSeq(s, 1, Len(s) - 1)) + (Ord(s[Len(s)]) - 48)

IsDigits(s) == s # <<>> /\ \A i \in 1..Len(s) : IsDigit(s[i])

(***************************************************************************)
(* MunkiLooseVersion                                                       *)
(***************************************************************************)

\* A component of self.version: an int or a str.
IntComp(n) == [isint |-> TRUE, n |-> n, s |-> <<>>]
StrComp(s) == [isint |-> FALSE, n |-> 0, s |-> s]

\* components[i] = int(obj), kept as the string on ValueError.
Component(tok) == IF IsDigits(tok) THEN IntComp(IntOf(tok)) ELSE StrComp(tok)

\* MunkiLooseVersion.parse: vstring is stored, the components are the split
\* pieces that are neither empty nor '.', digit pieces converted to int.
Components(pieces) == [i \in 1..Len(pieces) |-> Component(pieces[i])]

parse(vstring) ==
    [vstring |-> vstring,
     version |-> Components(SelectSeq(ReSplit(vstring), LAMBDA x : x # <<".">>))]

\* str(vstring.encode('UTF-8')): the repr of a bytes object, for ASCII text
\* without quotes or backslashes.
StrOfEncoded(vstring) == <<"b", "'">> \o vstring \o <<"'">>

\* MunkiLooseVersion.__init__ on a str argument: under Python 3 the name
\* `unicode` is undefined, unicode_type is str, the argument is encoded to
\* bytes and str() of the bytes is parsed.
MunkiLooseVersion(vstring) == parse(StrOfEncoded(vstring))

\* MunkiLooseVersion.__str__
Str(obj) == obj.vstring

\* MunkiLooseVersion._pad
pad(version_list, max_length) ==
    [i \in 1..max_length |->
        IF i <= Len(version_list) THEN version_list[i] ELSE IntComp(0)]

RECURSIVE StrLess(_, _)
\* Python's s < t on str: lexicographic by code point.
StrLess(s, t) ==
    IF t = <<>> THEN FALSE
    ELSE IF s = <<>> THEN TRUE
    ELSE IF Ord(s[1]) # Ord(t[1]) THEN Ord(s[1]) < Ord(t[1])
    ELSE StrLess(Tail(s), Tail(t))

\* _cmp(x, y) = (x > y) - (x < y) on two ints or two strs.
cmp(x, y) ==
    IF x.isint
    THEN (IF x.n > y.n THEN 1 ELSE 0) - (IF x.n < y.n THEN 1 ELSE 0)
    ELSE IF StrLess(y.s, x.s) THEN 1 ELSE IF StrLess(x.s, y.s) THEN -1 ELSE 0

\* A variant of the TypeError handler that ranks text below integers.
TypeErrorTextFirst(value) == IF value.isint THEN 1 ELSE -1

\* A variant of the TypeError handler that ignores which side is the integer.
TypeErrorAlwaysLess(value) == -1

\* The `except TypeError` handler of _compare: int against str.
TypeErrorResult(value) == IF value.isint THEN -1 ELSE 1

RECURSIVE CompareLoop(_, _, _)
\* The for loop of _compare from position index on.
CompareLoop(self_cmp, other_cmp, index) ==
    IF index > Len(self_cmp) THEN 0
    ELSE IF self_cmp[index].isint # other_cmp[index].isint
         THEN TypeErrorResult(self_cmp[index])
         ELSE LET cmp_result == cmp(self_cmp[index], other_cmp[index])
              IN  IF cmp_result # 0 THEN cmp_result
                  ELSE CompareLoop(self_cmp, other_cmp, index + 1)

\* MunkiLooseVersion._compare
compare(self, other) ==
    LET max_length == IF Len(self.version) > Len(other.version)
                      THEN Len(self.version) ELSE Len(other.version)
    IN  CompareLoop(pad(self.version, max_length),
                    pad(other.version, max_length), 1)

\* __lt__, __eq__, __gt__
lt(self, other) == compare(self, other) < 0
eq(self, other) == compare(self, other) = 0
gt(self, other) == compare(self, other) > 0


(***************************************************************************)
(* os.path helpers and nameAndVersion                                      *)
(***************************************************************************)

\* s[i:] and s[:i] of Python for a 0-based start i in 0..len(s)
From(s, i) == SubSeq(s, i + 1, Len(s))
Upto(s, i) == SubSeq(s, 1, i)

\* s[index:] of Python for index <= 0: the last -index characters, and the
\* whole string when index is 0 or reaches beyond the start.
SliceFrom(s, index) ==
    IF index = 0 \/ 0 - index >= Len(s) THEN s ELSE From(s, Len(s) + index)

\* s[0:index] of Python for index <= 0
SliceUpto(s, index) ==
    IF index = 0 \/ 0 - index >= Len(s) THEN <<>> ELSE Upto(s, Len(s) + index)

\* s.rfind(c) + 1: the 1-based position of the last c, 0 when there is none
RFind(s, c) ==
    IF \E i \in 1..Len(s) : s[i] = c
    THEN CHOOSE i \in 1..Len(s) : s[i] = c /\ \A j \in (i + 1)..Len(s) : s[j] # c
    ELSE 0

\* os.path.basename
basename(path) == From(path, RFind(path, "/"))

\* os.path.splitext: the extension starts at the last dot after the last
\* slash, unless only dots precede it in the file name.
splitext(path) ==
    LET sep == RFind(path, "/")
        dot == RFind(path, ".")
    IN  IF dot > sep /\ \E i \in (sep + 1)..(dot - 1) : path[i] # "."
        THEN <<Upto(path, dot - 1), From(path, dot - 1)>>
        ELSE <<path, <<>>>>

RECURSIVE rstrip(_, _)
\* str.rstrip(chars)
rstrip(s, chars) ==
    IF s # <<>> /\ s[Len(s)] \in chars THEN rstrip(Upto(s, Len(s) - 1), chars) ELSE s

\* A variant that leaves a 'v' at the end of the name.
NameTrimWithoutV == {" ", ".", "-", "_"}

\* The characters of rstrip(' .-_v')
NameTrim == {" ", ".", "-", "_", "v"}

\* The (\.|a|b|d|v) alternatives of the version pattern
IsQualifier(c) == c \in {".", "a", "b", "d", "v"}

\* Position of the last digit of the digit run that starts at position i.
DigitsEnd(s, i) ==
    CHOOSE j \in i..Len(s) :
        /\ \A k \in i..j : IsDigit(s[k])
        /\ (j < Len(s) => ~IsDigit(s[j + 1]))

RECURSIVE GroupsEnd(_, _)
\* End of the longest sequence of ((\.|a|b|d|v)[0-9]+) groups that follows
\* position j.
GroupsEnd(s, j) ==
    IF j + 2 <= Len(s) /\ IsQualifier(s[j + 1]) /\ IsDigit(s[j + 2])
    THEN GroupsEnd(s, DigitsEnd(s, j + 2))
    ELSE j

\* End of the match of [0-9]+(\.[0-9]+)((\.|a|b|d|v)[0-9]+)+ that starts at
\* position i, 0 when the pattern does not match there.
MatchEnd(s, i) ==
    IF ~IsDigit(s[i]) THEN 0
    ELSE LET j1 == DigitsEnd(s, i)
         IN  IF j1 + 2 <= Len(s) /\ s[j1 + 1] = "." /\ IsDigit(s[j1 + 2])
             THEN LET j2 == DigitsEnd(s, j1 + 2)
                      j3 == GroupsEnd(s, j2)
                  IN  IF j3 > j2 THEN j3 ELSE 0
             ELSE 0

\* str.find(sub) + 1 when sub occurs in s
Find(s, sub) ==
    CHOOSE i \in 1..(Len(s) - Len(sub) + 1) :
        /\ SubSeq(s, i, i + Len(sub) - 1) = sub
        /\ \A j \in 1..(i - 1) : SubSeq(s, j, j + Len(sub) - 1) # sub

\* A variant of the scan that takes every character of the string.
ScanBackAll(s, k) == 0 - Len(s)

RECURSIVE ScanBack(_, _)
\* The backward scan of nameAndVersion: k is the number of the character
\* looked at, counted from the end; the result is the final (non-positive)
\* index.
ScanBack(s, k) ==
    LET index == 0 - (k - 1)
    IN  IF k > Len(s) THEN index
        ELSE LET char == s[Len(s) - k + 1]
             IN  IF IsDigit(char) \/ char \in {".", "_"} THEN ScanBack(s, k + 1)
                 ELSE IF char \in {"a", "b", "d", "v"}
                      THEN LET partialVersion == SliceFrom(s, index)
                           IN  IF \E i \in 1..Len(partialVersion) :
                                     partialVersion[i] \in {"a", "b", "d", "v"}
                               THEN index
                               ELSE ScanBack(s, k + 1)
                      ELSE index

\* Number of characters before the first digit of s (all of s without one).
LeadingNonDigits(s) ==
    IF \E i \in 1..Len(s) : IsDigit(s[i])
    THEN (CHOOSE i \in 1..Len(s) :
              IsDigit(s[i]) /\ \A j \in 1..(i - 1) : ~IsDigit(s[j])) - 1
    ELSE Len(s)

\* nameAndVersion: <<name, version>>
nameAndVersion(aString_) ==
    LET starts == {i \in 1..Len(aString_) : MatchEnd(aString_, i) > 0}
    IN  IF starts # {}
        THEN LET i == CHOOSE x \in starts : \A y \in starts : x <= y
                 vers == SubSeq(aString_, i, MatchEnd(aString_, i))
             IN  <<rstrip(Upto(aString_, Find(aString_, vers) - 1), NameTrim), vers>>
        ELSE LET index == ScanBack(aString_, 1)
             IN  IF index < 0
                 THEN LET possibleVersion == SliceFrom(aString_, index)
                          index2 == index + LeadingNonDigits(possibleVersion)
                      IN  <<rstrip(SliceUpto(aString_, index2), NameTrim),
                            SliceFrom(aString_, index2)>>
                 ELSE <<aString_, <<>>>>

(***************************************************************************)
(* Catalog entries (pkginfo dictionaries)                                  *)
(*                                                                         *)
(* An optional key of a dictionary is a sequence of length 0 (key absent)  *)
(* or 1 (key present).  'receipts' and 'installs' are lists; an absent     *)
(* list behaves like an empty one in every place the code reads it.        *)
(* A Python dict is a sequence of <<key, value>> pairs in insertion order. *)
(***************************************************************************)

None == <<>>
Some(x) == <<x>>
Has(opt) == opt # <<>>
Val(opt) == opt[1]

DictHas(d, k) == \E i \in 1..Len(d) : d[i][1] = k
DictGet(d, k) == d[CHOOSE i \in 1..Len(d) : d[i][1] = k][2]
DictKeys(d) == [i \in 1..Len(d) |-> d[i][1]]
\* d[k] = v
DictPut(d, k, v) ==
    IF DictHas(d, k)
    THEN [i \in 1..Len(d) |-> IF d[i][1] = k THEN <<k, v>> ELSE d[i]]
    ELSE Append(d, <<k, v>>)

\* if not k in table: table[k] = []; table[k].append(itemindex)
AppendTo(table, k, itemindex) ==
    DictPut(table, k,
            Append(IF DictHas(table, k) THEN DictGet(table, k) ELSE <<>>, itemindex))

\* if not k in table: table[k] = {}; if not vers in table[k]: table[k][vers] = []
\* table[k][vers].append(itemindex)
AppendToVersion(table, k, vers, itemindex) ==
    DictPut(table, k,
            AppendTo(IF DictHas(table, k) THEN DictGet(table, k) ELSE <<>>,
                     vers, itemindex))

NO_VERSION == <<"N", "O", " ", "V", "E", "R", "S", "I", "O", "N">>

(***************************************************************************)
(* make_catalog_db                                                         *)
(***************************************************************************)

EmptyDB(catalogitems_) ==
    [hashes |-> <<>>, receipts |-> <<>>, applications |-> <<>>,
     installer_items |-> <<>>, profiles |-> <<>>, items |-> catalogitems_]

\* The name and version the installer item is filed under: the file name
\* without a version that follows a '-', and that version; the item's own
\* version when the stem holds no '-'.
InstallerItemKey(location, vers) ==
    LET installer_item_name == basename(location)
        stem == splitext(installer_item_name)[1]
        ext == splitext(installer_item_name)[2]
        split == nameAndVersion(stem)
        hyphen == \E i \in 1..Len(stem) : stem[i] = "-"
    IN  [name |-> (IF hyphen THEN split[1] ELSE stem) \o ext,
         vers |-> IF hyphen THEN split[2] ELSE vers]

\* An element of a receipts or installs list that is not a dict: a string
\* ("str") or an integer ("int")
NotADict(shape_) == [shape |-> shape_]

IsDict(x) == "shape" \notin DOMAIN x

\* The value of the key 'receipts' or 'installs' when it is an integer, not a
\* list: `for receipt in item.get('receipts', [])` raises TypeError, outside
\* the try blocks of the loop bodies.
NotAList == <<NotADict("not a list")>>

Iterable(value) == value # NotAList

\* A variant that never files a receipt.
ReceiptNotIndexed(receipt) == FALSE

\* if 'packageid' in receipt and 'version' in receipt: false for a dict
\* without one of the keys and for a string; TypeError for an integer,
\* caught at line 1724 and the receipt skipped
ReceiptIndexed(receipt) ==
    IsDict(receipt) /\ Has(receipt.packageid) /\ Has(receipt.version)

RECURSIVE IndexReceipts(_, _, _, _)
\* for receipt in item.get('receipts', []), from the i-th receipt on
IndexReceipts(pkgid_table, receipts, i, itemindex) ==
    IF i > Len(receipts) THEN pkgid_table
    ELSE IndexReceipts(
            IF ReceiptIndexed(receipts[i])
            THEN AppendToVersion(pkgid_table, Val(receipts[i].packageid),
                                 Val(receipts[i].version), itemindex)
            ELSE pkgid_table,
            receipts, i + 1, itemindex)

RECURSIVE IndexInstalls(_, _, _, _, _)
\* for install in item.get('installs', []), from the i-th record on
IndexInstalls(app_table, installs, i, vers, itemindex) ==
    IF i > Len(installs) THEN app_table
    ELSE IndexInstalls(
            \* install.get raises AttributeError for a value that is not a
            \* dict, caught at line 1738 and the record skipped
            IF /\ IsDict(installs[i])
               /\ installs[i].type = Some("application")
               /\ Has(installs[i].path)
            THEN AppendToVersion(app_table, Val(installs[i].path), vers, itemindex)
            ELSE app_table,
            installs, i + 1, vers, itemindex)

\* One round of the `for item in catalogitems` loop.
IndexItem(db, item, itemindex) ==
    LET vers0 == IF Has(item.version) THEN Val(item.version) ELSE NO_VERSION
        key == InstallerItemKey(Val(item.installer_item_location), vers0)
        \* vers is reassigned by the installer item block
        vers == IF Has(item.installer_item_location) THEN key.vers ELSE vers0
    IN  [items |-> db.items,
         hashes |->
            IF Has(item.installer_item_hash)
            THEN AppendTo(db.hashes, Val(item.installer_item_hash), itemindex)
            ELSE db.hashes,
         installer_items |->
            IF Has(item.installer_item_location)
            THEN AppendToVersion(db.installer_items, key.name, key.vers, itemindex)
            ELSE db.installer_items,
         receipts |-> IndexReceipts(db.receipts, item.receipts, 1, itemindex),
         applications |->
            IndexInstalls(db.applications, item.installs, 1, vers, itemindex),
         profiles |->
            IF Has(item.PayloadIdentifier)
            THEN AppendToVersion(db.profiles, Val(item.PayloadIdentifier), vers,
                                 itemindex)
            ELSE db.profiles]

RECURSIVE IndexFrom(_, _)
\* The loop over catalogitems from position itemindex (0-based) on.
IndexFrom(db, itemindex) ==
    IF itemindex >= Len(db.items) THEN db
    ELSE IndexFrom(IndexItem(db, db.items[itemindex + 1], itemindex), itemindex + 1)

\* make_catalog_db once catalogs/all has been fetched and decoded.
make_catalog_db(catalogitems_) == IndexFrom(EmptyDB(catalogitems_), 0)

\* The for statements of lines 1715 and 1730 raise TypeError when an item
\* has a 'receipts' or an 'installs' value that cannot be iterated.
RaisesTypeError(catalogitems_) ==
    \E i \in 1..Len(catalogitems_) :
        ~Iterable(catalogitems_[i].receipts) \/ ~Iterable(catalogitems_[i].installs)

(***************************************************************************)
(* find_matching_pkginfo                                                   *)
(***************************************************************************)

\* Position (1-based) of the object a descending stable sort puts first: the
\* earliest one no other object is greater than.
FirstNewest(objects) ==
    CHOOSE i \in 1..Len(objects) :
        /\ \A j \in 1..Len(objects) : ~gt(objects[j], objects[i])
        /\ \A j \in 1..(i - 1) : \E k \in 1..Len(objects) : gt(objects[k], objects[j])

\* The key function of the sort applied to every key.
SortKeys(keys) == [i \in 1..Len(keys) |-> MunkiLooseVersion(keys[i])]

Without(seq, i) == SubSeq(seq, 1, i - 1) \o SubSeq(seq, i + 1, Len(seq))

RECURSIVE SortNewestFirst(_)
\* The i-th key, then the other keys sorted.
MoveFirst(keys, i) == <<keys[i]>> \o SortNewestFirst(Without(keys, i))

\* versionlist.sort(key=MunkiLooseVersion, reverse=True): descending and
\* stable (keys that compare equal keep their order).
SortNewestFirst(keys) ==
    IF keys = <<>> THEN <<>> ELSE MoveFirst(keys, FirstNewest(SortKeys(keys)))

\* [item['packageid'] for item in receipts if 'packageid' in item]
RECURSIVE PkgIds(_)
PkgIds(receipts) ==
    IF receipts = <<>> THEN <<>>
    ELSE (IF Has(receipts[1].packageid) THEN <<Val(receipts[1].packageid)>> ELSE <<>>)
            \o PkgIds(Tail(receipts))

SetOf(seq) == {seq[i] : i \in 1..Len(seq)}

\* set(testpkgids) == set(pkgids)
SamePkgIds(testpkgids, pkgids) == SetOf(testpkgids) = SetOf(pkgids)

RECURSIVE Concat(_)
Concat(seqs) == IF seqs = <<>> THEN <<>> ELSE seqs[1] \o Concat(Tail(seqs))

\* The buckets of a versioned table entry, one after the other in the order
\* of versionlist.
Buckets(possiblematches, versionlist) ==
    Concat([i \in 1..Len(versionlist) |-> DictGet(possiblematches, versionlist[i])])

\* The item indexes in the order the receipt loops visit them: version keys
\* newest first, each bucket in the order it was filled.
VisitOrder(possiblematches) ==
    Buckets(possiblematches, SortNewestFirst(DictKeys(possiblematches)))

NoMatch == -1

\* A variant of the hash lookup that returns the last index filed.
LastIndex(matchingindexes) == matchingindexes[Len(matchingindexes)]

\* matchingindexes[0]
FirstIndex(matchingindexes) == matchingindexes[1]

\* Lines 1603-1607: the index matched by installer_item_hash, or NoMatch.
HashStep(catdb_, pkginfo_) ==
    IF Has(pkginfo_.installer_item_hash)
          /\ DictHas(catdb_.hashes, Val(pkginfo_.installer_item_hash))
    THEN FirstIndex(DictGet(catdb_.hashes, Val(pkginfo_.installer_item_hash)))
    ELSE NoMatch

\* The first index of order whose entry has the same set of packageids.
FirstSamePkgIds(items, order, pkgids) ==
    IF \E i \in 1..Len(order) : SamePkgIds(PkgIds(items[order[i] + 1].receipts), pkgids)
    THEN order[CHOOSE i \in 1..Len(order) :
                 /\ SamePkgIds(PkgIds(items[order[i] + 1].receipts), pkgids)
                 /\ \A j \in 1..(i - 1) :
                       ~SamePkgIds(PkgIds(items[order[j] + 1].receipts), pkgids)]
    ELSE NoMatch

\* The receipt lookup for the packageids of the pkginfo.
ReceiptLookup(catdb_, pkgids) ==
    IF pkgids # <<>> /\ DictHas(catdb_.receipts, pkgids[1])
    THEN FirstSamePkgIds(catdb_.items,
                         VisitOrder(DictGet(catdb_.receipts, pkgids[1])), pkgids)
    ELSE NoMatch

\* Lines 1609-1627: the index matched by receipts, or NoMatch.
ReceiptStep(catdb_, pkginfo_) == ReceiptLookup(catdb_, PkgIds(pkginfo_.receipts))

\* indexes[0] of the newest version filed under a key of a versioned table
NewestFirstIndex(possiblematches) ==
    DictGet(possiblematches, SortNewestFirst(DictKeys(possiblematches))[1])[1]

\* applist: the install records of type application that have a path
RECURSIVE AppList(_)
AppList(installs) ==
    IF installs = <<>> THEN <<>>
    ELSE (IF installs[1].type = Some("application") /\ Has(installs[1].path)
          THEN <<installs[1]>> ELSE <<>>) \o AppList(Tail(installs))

\* item['type'] raises KeyError for an install record without a type.
InstallsRaise(pkginfo_) ==
    \E i \in 1..Len(pkginfo_.installs) : ~Has(pkginfo_.installs[i].type)

\* The application lookup for applist.
AppLookup(catdb_, applist) ==
    IF applist # <<>> /\ DictHas(catdb_.applications, Val(applist[1].path))
    THEN NewestFirstIndex(DictGet(catdb_.applications, Val(applist[1].path)))
    ELSE NoMatch

\* Lines 1629-1640: the index matched by application path, or NoMatch.
AppStep(catdb_, pkginfo_) == AppLookup(catdb_, AppList(pkginfo_.installs))

\* Lines 1642-1649: the index matched by PayloadIdentifier, or NoMatch.
ProfileStep(catdb_, pkginfo_) ==
    IF Has(pkginfo_.PayloadIdentifier)
          /\ DictHas(catdb_.profiles, Val(pkginfo_.PayloadIdentifier))
    THEN NewestFirstIndex(DictGet(catdb_.profiles, Val(pkginfo_.PayloadIdentifier)))
    ELSE NoMatch

\* Lines 1651-1660: the index matched by installer item file name, or NoMatch.
FilenameLookup(catdb_, installer_item_name) ==
    IF DictHas(catdb_.installer_items, installer_item_name)
    THEN NewestFirstIndex(DictGet(catdb_.installer_items, installer_item_name))
    ELSE NoMatch

FilenameStep(catdb_, pkginfo_) ==
    FilenameLookup(catdb_,
                   basename(IF Has(pkginfo_.installer_item_location)
                            THEN Val(pkginfo_.installer_item_location) ELSE <<>>))

Matched(step_, index_) == [kind |-> "match", step |-> step_, index |-> index_]
NothingMatched == [kind |-> "none", step |-> "none", index |-> NoMatch]
Raised == [kind |-> "raise", step |-> "installs", index |-> NoMatch]

\* A variant that looks at the profile identifier before the applications.
FirstMatchProfileFirst(hash, receipts_, raises, installs_, profile, filename) ==
    IF hash # NoMatch THEN Matched("hash", hash)
    ELSE IF receipts_ # NoMatch THEN Matched("receipts", receipts_)
    ELSE IF profile # NoMatch THEN Matched("profile", profile)
    ELSE IF raises THEN Raised
    ELSE IF installs_ # NoMatch THEN Matched("installs", installs_)
    ELSE IF filename # NoMatch THEN Matched("filename", filename)
    ELSE NothingMatched

\* The result of the first step that matched; the installs step raises
\* before it looks anything up.
FirstMatch(hash, receipts_, raises, installs_, profile, filename) ==
    IF hash # NoMatch THEN Matched("hash", hash)
    ELSE IF receipts_ # NoMatch THEN Matched("receipts", receipts_)
    ELSE IF raises THEN Raised
    ELSE IF installs_ # NoMatch THEN Matched("installs", installs_)
    ELSE IF profile # NoMatch THEN Matched("profile", profile)
    ELSE IF filename # NoMatch THEN Matched("filename", filename)
    ELSE NothingMatched

\* find_matching_pkginfo after make_catalog_db returned catdb_: the steps in
\* their order, the first that matches returns.
MatchIn(catdb_, pkginfo_) ==
    FirstMatch(HashStep(catdb_, pkginfo_), ReceiptStep(catdb_, pkginfo_),
               InstallsRaise(pkginfo_), AppStep(catdb_, pkginfo_),
               ProfileStep(catdb_, pkginfo_), FilenameStep(catdb_, pkginfo_))

\* A variant that takes the item it returns out of the list of items.
CatdbWithoutMatch(catdb_, pkginfo_) ==
    LET found == MatchIn(catdb_, pkginfo_)
    IN  IF found.kind = "match"
        THEN [catdb_ EXCEPT !.items = Without(catdb_.items, found.index + 1)]
        ELSE catdb_

\* catdb when find_matching_pkginfo returns: the steps read the tables with
\* get() and subscripts, and what they sort is list(possiblematches.keys()),
\* a new list (lines 1616, 1637, 1647 and 1657).
CatdbAfterMatch(catdb_, pkginfo_) == catdb_

\* Lines 1587-1596: the handler of CatalogReadException returns {}.
OnCatalogReadException == NothingMatched

\* Lines 1597-1601: the handler of CatalogDBException, which a
\* CatalogDecodeException reaches, returns {}.
OnCatalogDBException == NothingMatched

(***************************************************************************)
(* makepkginfo                                                             *)
(***************************************************************************)

\* os.path.dirname: the part before the last slash, without trailing
\* slashes unless it consists of slashes only.
dirname(path) ==
    LET head == Upto(path, RFind(path, "/"))
    IN  IF \E i \in 1..Len(head) : head[i] # "/" THEN rstrip(head, {"/"}) ELSE head

\* str.endswith
endswith(s, suffix) ==
    Len(s) >= Len(suffix) /\ SubSeq(s, Len(s) - Len(suffix) + 1, Len(s)) = suffix

\* str.startswith
startswith(s, prefix) ==
    Len(s) >= Len(prefix) /\ SubSeq(s, 1, Len(prefix)) = prefix

SlashPkgs == <<"/", "p", "k", "g", "s">>

\* A variant of the loop that never finds a pkgs directory.
LocationNever(installeritem_, temppath) == <<>>

RECURSIVE LocationFrom(_, _)
\* The while loop of lines 635-641 from temppath on: the text after the
\* first directory, walking up, whose path ends with '/pkgs'; '' when the
\* walk ends without one.
LocationFrom(installeritem_, temppath) ==
    IF Len(temppath) > 4
    THEN IF endswith(temppath, SlashPkgs)
         THEN From(installeritem_, Len(temppath) + 1)
         ELSE LocationFrom(installeritem_, dirname(temppath))
    ELSE <<>>

\* Lines 633-646: location, or the file name when location is empty.
ItemLocation(installeritem_) ==
    LET location == LocationFrom(installeritem_, installeritem_)
    IN  IF location = <<>> THEN basename(installeritem_) ELSE location

\* hasValidDiskImageExt and hasValidPackageExt, on lower-case paths
Uppercase ==
    <<"A", "B", "C", "D", "E", "F", "G", "H", "I", "J", "K", "L", "M",
      "N", "O", "P", "Q", "R", "S", "T", "U", "V", "W", "X", "Y", "Z">>

Lowercase ==
    <<"a", "b", "c", "d", "e", "f", "g", "h", "i", "j", "k", "l", "m",
      "n", "o", "p", "q", "r", "s", "t", "u", "v", "w", "x", "y", "z">>

\* str.lower
lower(s) ==
    [i \in 1..Len(s) |->
        IF \E k \in DOMAIN Uppercase : Uppercase[k] = s[i]
        THEN Lowercase[CHOOSE k \in DOMAIN Uppercase : Uppercase[k] = s[i]]
        ELSE s[i]]

hasValidDiskImageExt(path) ==
    lower(splitext(path)[2]) \in {<<".", "d", "m", "g">>, <<".", "i", "s", "o">>}

hasValidPackageExt(path) ==
    lower(splitext(path)[2]) \in {<<".", "p", "k", "g">>, <<".", "m", "p", "k", "g">>}

hasValidInstallerItemExt(path) ==
    hasValidPackageExt(path) \/ hasValidDiskImageExt(path)

default_minosversion == <<"1", "0", ".", "4", ".", "0">>

\* "1.0.0.0.0 (Please edit me!)"
PleaseEditMe ==
    <<"1", ".", "0", ".", "0", ".", "0", ".", "0", " ", "(", "P", "l", "e", "a",
      "s", "e", " ", "e", "d", "i", "t", " ", "m", "e", "!", ")">>

RECURSIVE MaxFrom(_, _, _)
\* max(items) of Python from position i on: an item replaces the best one so
\* far when it is greater (__gt__).
MaxFrom(items, best, i) ==
    IF i > Len(items) THEN best
    ELSE MaxFrom(items, IF gt(items[i], best) THEN items[i] ELSE best, i + 1)

\* Lines 676-685: the MunkiLooseVersion objects of the minosversion of the
\* install records that have one, of the default, and of the
\* minimum_os_version if the key is there.
item_minosversions(installs_, minimum_os_version) ==
    LET with == SelectSeq(installs_, LAMBDA item : Has(item.minosversion))
    IN  [i \in 1..Len(with) |-> MunkiLooseVersion(Val(with[i].minosversion))]
        \o <<MunkiLooseVersion(default_minosversion)>>
        \o (IF Has(minimum_os_version)
            THEN <<MunkiLooseVersion(Val(minimum_os_version))>> ELSE <<>>)

\* Lines 674-692. The 'installs' key is only ever set at line 855, to a list
\* of one record, so that the key is there when the list is not empty.
MinimumOsVersion(installer_type, installs_, minimum_os_version) ==
    IF installer_type # Some("stage_os_installer") /\ installs_ # <<>>
    THEN LET versions == item_minosversions(installs_, minimum_os_version)
         IN  Str(MaxFrom(versions, versions[1], 2))
    ELSE IF Has(minimum_os_version) THEN Val(minimum_os_version)
    ELSE default_minosversion

\* A variant that also takes the name of the user from the clock.
MetadataOfClock(now_) == [created_by |-> now_, creation_date |-> now_]

\* make_pkginfo_metadata: the user of the environment and the isoformat of
\* the clock reading.
make_pkginfo_metadata(now_) == [created_by |-> "USER", creation_date |-> now_]

\* What get_catalog_info_from_dmg and get_catalog_info_from_path return when
\* they find nothing: None or {}
NoCatInfo ==
    [found |-> FALSE, name |-> None, version |-> None, receipts |-> <<>>,
     installs |-> <<>>, installer_type |-> None, minimum_os_version |-> None,
     uninstall_method |-> None, uninstallable |-> None]

\* Lines 585-587 and 598-626: the checks that raise PkgInfoGenerationError.
MakeRaises(installeritem_, itemkind_, catinfo_) ==
    \/ itemkind_ = "missing"
    \/ ~hasValidDiskImageExt(installeritem_) /\ ~hasValidPackageExt(installeritem_)
    \/ ~catinfo_.found

\* makepkginfo(installeritem, options) when it returns: the dictionary.
makepkginfo(installeritem_, itemkind_, catinfo_, nopkg_, now_) ==
    LET given == installeritem_ # <<>>
        removepackages == /\ given
                          /\ ~Has(catinfo_.uninstall_method)
                          /\ catinfo_.receipts # <<>>
        installer_type_ == IF given THEN catinfo_.installer_type
                           ELSE IF nopkg_ THEN Some("nopkg") ELSE None
    IN  [error |-> "none",
         name |-> IF given THEN catinfo_.name ELSE None,
         version |-> IF given /\ Has(catinfo_.version) THEN catinfo_.version
                     ELSE Some(PleaseEditMe),
         receipts |-> IF given THEN catinfo_.receipts ELSE <<>>,
         installs |-> IF given THEN catinfo_.installs ELSE <<>>,
         installer_type |-> installer_type_,
         PayloadIdentifier |-> None,
         installer_item_size |-> IF given /\ itemkind_ = "file" THEN Some("size") ELSE None,
         installer_item_hash |-> IF given /\ itemkind_ = "file" THEN Some("h1") ELSE None,
         installer_item_location |->
            IF given THEN Some(ItemLocation(installeritem_)) ELSE None,
         uninstallable |-> IF removepackages THEN Some(TRUE)
                           ELSE IF given THEN catinfo_.uninstallable ELSE None,
         uninstall_method |-> IF removepackages THEN Some("removepackages")
                              ELSE IF given THEN catinfo_.uninstall_method ELSE None,
         catalogs |-> <<"DEFAULT_CATALOG">>,
         autoremove |-> FALSE,
         minimum_os_version |->
            IF given
            THEN MinimumOsVersion(installer_type_, catinfo_.installs,
                                  catinfo_.minimum_os_version)
            ELSE default_minosversion,
         metadata |-> make_pkginfo_metadata(now_)]

\* makepkginfo raises PkgInfoGenerationError
MakeRaised == [error |-> "PkgInfoGenerationError"]

(***************************************************************************)
(* Values of the parts of the state a scenario does not use                *)
(***************************************************************************)

Ver1_0 == <<"1", ".", "0">>

\* A receipt dictionary
Receipt(pkgid, vers) == [packageid |-> pkgid, version |-> vers]

\* A pkginfo dictionary with a name and a version
Pkginfo(hash, receipts_, installs_, profile, location) ==
    [name |-> Some("n"), version |-> Some(Ver1_0),
     installer_item_hash |-> hash, receipts |-> receipts_,
     installs |-> installs_, PayloadIdentifier |-> profile,
     installer_item_location |-> location]

NoCmps == [aa |-> 0, ab |-> 0, ba |-> 0]

VerOff ==
    /\ vpc = "off"
    /\ va = <<>>
    /\ vb = <<>>
    /\ objs = <<>>
    /\ cmps = NoCmps

CatOff ==
    /\ cpc = "off"
    /\ catalogitems = <<>>
    /\ pkginfo = Pkginfo(None, <<>>, <<>>, None, None)
    /\ catdb = EmptyDB(<<>>)
    /\ caterr = "none"
    /\ matched = NothingMatched

DmgOff ==
    /\ dpc = "off"
    /\ seven_zip = FALSE
    /\ dmg2img = FALSE
    /\ options = [pkgname |-> FALSE, item |-> FALSE]
    /\ workspace = "none"
    /\ inner_dir = "none"
    /\ mountpoint = ""
    /\ cataloginfo = "pending"

RefOff ==
    /\ rpc = "off"
    /\ packages = <<>>
    /\ stack = <<>>
    /\ receiptinfo = <<>>
    /\ pkgtmp = 0
    /\ stderr = {}

NavOff ==
    /\ npc = "off"
    /\ aString = <<>>
    /\ nameVers = <<<<>>, <<>>>>

\* get_catalog_info_from_dmg has not ended.
NoItemOut == [outcome |-> "pending", source_item |-> <<>>, path |-> <<>>]

MkOff ==
    /\ mpc = "off"
    /\ installeritem = <<>>
    /\ itemkind = "missing"
    /\ catinfo = NoCatInfo
    /\ nopkg = FALSE
    /\ now = 0
    /\ entries = <<>>
    /\ finds = <<>>

ItOff ==
    /\ ipc = "off"
    /\ optitem = <<>>
    /\ disk = {}
    /\ itemout = NoItemOut

ExOff ==
    /\ xpc = "off"
    /\ which7z = FALSE
    /\ proc = <<>>
    /\ returned = <<>>

SrOff ==
    /\ spc = "off"
    /\ image = <<>>
    /\ optpkgname = <<>>
    /\ picked = <<>>

(***************************************************************************)
(* Version scenario: two strings are turned into MunkiLooseVersion objects, *)
(* which are then compared with each other.                                *)
(***************************************************************************)

\* Longest generated version string.
MaxVerLen == 2

VerAlphabet == {"0", "1", ".", "a"}

BoundedStrings == UNION {[1..n -> VerAlphabet] : n \in 0..MaxVerLen}

\* Digits and single dots between digit runs, e.g. 10.6.0
DottedNumeric(s) ==
    /\ s # <<>>
    /\ \A i \in 1..Len(s) : IsDigit(s[i]) \/ s[i] = "."
    /\ IsDigit(s[1]) /\ IsDigit(s[Len(s)])
    /\ \A i \in 1..(Len(s) - 1) : ~(s[i] = "." /\ s[i + 1] = ".")

V10_6 == <<"1", "0", ".", "6">>
V10_6_0 == <<"1", "0", ".", "6", ".", "0">>
V2_0 == <<"2", ".", "0">>
V2_0_3124_0 == <<"2", ".", "0", ".", "3", "1", "2", "4", ".", "0">>
V1_2 == <<"1", ".", "2">>
V1_2a1 == <<"1", ".", "2", "a", "1">>

ExampleStrings == {V10_6, V10_6_0, V2_0, V2_0_3124_0, V1_2, V1_2a1}

DotZero == <<".", "0">>

VerInputs ==
    BoundedStrings \cup ExampleStrings
        \cup {s \o DotZero : s \in {x \in BoundedStrings : DottedNumeric(x)}}

InitVer ==
    /\ CatOff /\ DmgOff /\ RefOff /\ NavOff /\ MkOff /\ ItOff /\ ExOff /\ SrOff
    /\ vpc = "input"
    /\ va \in VerInputs
    /\ vb \in VerInputs
    /\ objs = <<>>
    /\ cmps = NoCmps

\* MunkiLooseVersion(va), MunkiLooseVersion(vb)
Construct ==
    /\ vpc = "input"
    /\ objs' = <<MunkiLooseVersion(va), MunkiLooseVersion(vb)>>
    /\ vpc' = "built"
    /\ UNCHANGED <<va, vb, cmps, catVars, dmgVars, refVars, navVars, mkVars,
                   itVars, exVars, srVars>>

\* The objects are compared with _compare, in both directions and with
\* themselves.
Compare ==
    /\ vpc = "built"
    /\ cmps' = [aa |-> compare(objs[1], objs[1]),
                ab |-> compare(objs[1], objs[2]),
                ba |-> compare(objs[2], objs[1])]
    /\ vpc' = "compared"
    /\ UNCHANGED <<va, vb, objs, catVars, dmgVars, refVars, navVars, mkVars,
                   itVars, exVars, srVars>>

NextVer == Construct \/ Compare

SpecVer == InitVer /\ [][NextVer]_vars

\* The objects built from the input strings, tabulated once (@@ makes the
\* function an explicit table).
VersionTable == [s \in VerInputs |-> MunkiLooseVersion(s)] @@ <<>>

\* _compare between the versions built from every two input strings,
\* tabulated once.
CompareTable ==
    [a \in VerInputs |->
        [b \in VerInputs |-> compare(VersionTable[a], VersionTable[b])] @@ <<>>]
    @@ <<>>

(***************************************************************************)
(* Catalog scenario: find_matching_pkginfo is called with a pkginfo on a   *)
(* repo whose catalogs/all holds catalogitems.                             *)
(***************************************************************************)

\* Longest catalog generated.
MaxItems == 2

Ver2_0 == <<"2", ".", "0">>
Ver2_0_1 == <<"2", ".", "0", ".", "1">>

ReceiptLists ==
    {<<>>,
     <<Receipt(Some("p"), Some(Ver2_0))>>,
     <<Receipt(Some("p"), Some(Ver2_0_1))>>,
     <<Receipt(Some("p"), Some(Ver2_0_1)), Receipt(Some("q"), Some(Ver2_0))>>,
     <<Receipt(Some("q"), Some(Ver2_0)), Receipt(Some("p"), Some(Ver2_0))>>,
     <<Receipt(Some("p"), None)>>,
     <<Receipt(None, Some(Ver2_0))>>}

FooPkg == <<"F", "o", "o", "-", "1", ".", "0", ".", "p", "k", "g">>

\* A file name without a version in it
FooBare == <<"F", "o", "o", ".", "p", "k", "g">>

\* pkginfos identified by hash and receipts, and one for each other identity
Pkginfos ==
    {Pkginfo(h, r, <<>>, None, None) : h \in {None, Some("h1")}, r \in ReceiptLists}
    \cup {Pkginfo(None, <<>>,
                  <<[type |-> Some("application"), path |-> Some("/A")]>>, None, None),
          Pkginfo(None, <<>>, <<>>, Some("prof"), None),
          Pkginfo(None, <<>>, <<>>, None, Some(FooPkg)),
          Pkginfo(None, <<>>, <<>>, None, Some(FooBare))}

Catalogs == UNION {[1..n -> Pkginfos] : n \in 0..MaxItems}

AppA == [type |-> Some("application"), path |-> Some("/A")]

\* The pkginfos find_matching_pkginfo is called with: those of the repo, the
\* ones known by several identities at once, and one whose install record
\* has no type.
Candidates ==
    Pkginfos
    \cup {Pkginfo(h, r, i, pr, l) :
            h \in {None, Some("h1")},
            r \in {<<>>, <<Receipt(Some("p"), Some(Ver2_0))>>},
            i \in {<<>>, <<AppA>>},
            pr \in {None, Some("prof")},
            l \in {None, Some(FooBare)}}
    \cup {Pkginfo(None, <<>>, <<[type |-> None, path |-> Some("/A")]>>,
                  Some("prof"), None)}

InitCat ==
    /\ VerOff /\ DmgOff /\ RefOff /\ NavOff /\ MkOff /\ ItOff /\ ExOff /\ SrOff
    /\ cpc = "idle"
    /\ catalogitems \in Catalogs
    /\ pkginfo = Pkginfo(None, <<>>, <<>>, None, None)
    /\ catdb = EmptyDB(<<>>)
    /\ caterr = "none"
    /\ matched = NothingMatched

\* find_matching_pkginfo(repo, pkginfo) is entered.
Call ==
    /\ cpc = "idle"
    /\ \E p \in Candidates : pkginfo' = p
    /\ cpc' = "make"
    /\ UNCHANGED <<catalogitems, catdb, caterr, matched, verVars, dmgVars, refVars, navVars,
                   mkVars, itVars, exVars, srVars>>

\* catdb = make_catalog_db(repo) returns the index.
MakeCatalogDb ==
    /\ cpc = "make"
    /\ ~RaisesTypeError(catalogitems)
    /\ catdb' = make_catalog_db(catalogitems)
    /\ cpc' = "match"
    /\ UNCHANGED <<catalogitems, pkginfo, caterr, matched, verVars, dmgVars, refVars, navVars,
                   mkVars, itVars, exVars, srVars>>

\* repo.get('catalogs/all') raises RepoError: make_catalog_db raises
\* CatalogReadException and find_matching_pkginfo returns {}.
CatalogReadError ==
    /\ cpc = "make"
    /\ caterr' = "read"
    /\ matched' = OnCatalogReadException
    /\ cpc' = "done"
    /\ UNCHANGED <<catalogitems, pkginfo, catdb, verVars, dmgVars, refVars, navVars,
                   mkVars, itVars, exVars, srVars>>

\* plistlib.loads raises InvalidFileException: make_catalog_db raises
\* CatalogDecodeException and find_matching_pkginfo returns {}.
CatalogDecodeError ==
    /\ cpc = "make"
    /\ caterr' = "decode"
    /\ matched' = OnCatalogDBException
    /\ cpc' = "done"
    /\ UNCHANGED <<catalogitems, pkginfo, catdb, verVars, dmgVars, refVars, navVars,
                   mkVars, itVars, exVars, srVars>>

\* The lookups of find_matching_pkginfo in catdb.
Match ==
    /\ cpc = "match"
    /\ matched' = MatchIn(catdb, pkginfo)
    /\ catdb' = CatdbAfterMatch(catdb, pkginfo)
    /\ cpc' = "done"
    /\ UNCHANGED <<catalogitems, pkginfo, caterr, verVars, dmgVars, refVars, navVars,
                   mkVars, itVars, exVars, srVars>>

NextCat == Call \/ MakeCatalogDb \/ CatalogReadError \/ CatalogDecodeError \/ Match

SpecCat == InitCat /\ [][NextCat]_vars

\* make_catalog_db raises TypeError, which is no CatalogDBException:
\* find_matching_pkginfo does not catch it and returns nothing.
MakeCatalogDbRaises ==
    /\ cpc = "make"
    /\ RaisesTypeError(catalogitems)
    /\ caterr' = "TypeError"
    /\ cpc' = "done"
    /\ UNCHANGED <<catalogitems, pkginfo, catdb, matched, verVars, dmgVars, refVars, navVars,
                   mkVars, itVars, exVars, srVars>>

(***************************************************************************)
(* Versions scenario: the same call on a repo whose entries are known by   *)
(* an application path, a profile identifier or a file name, in several    *)
(* versions.                                                               *)
(***************************************************************************)

\* The pkginfo p with version v
WithVersion(p, v) ==
    [name |-> p.name, version |-> Some(v),
     installer_item_hash |-> p.installer_item_hash, receipts |-> p.receipts,
     installs |-> p.installs, PayloadIdentifier |-> p.PayloadIdentifier,
     installer_item_location |-> p.installer_item_location]

VersionedPkginfos ==
    {WithVersion(p, v) :
        p \in {q \in Pkginfos : /\ ~Has(q.installer_item_hash)
                                /\ q.receipts = <<>>
                                /\ q.installer_item_location # Some(FooPkg)},
        v \in {Ver1_0, Ver2_0, Ver2_0_1}}
    \cup {Pkginfo(None, <<>>, <<>>, None, Some(FooPkg))}

InitCatVer ==
    /\ VerOff /\ DmgOff /\ RefOff /\ NavOff /\ MkOff /\ ItOff /\ ExOff /\ SrOff
    /\ cpc = "idle"
    /\ catalogitems \in UNION {[1..n -> VersionedPkginfos] : n \in 0..MaxItems}
    /\ pkginfo = Pkginfo(None, <<>>, <<>>, None, None)
    /\ catdb = EmptyDB(<<>>)
    /\ caterr = "none"
    /\ matched = NothingMatched

SpecCatVer == InitCatVer /\ [][NextCat]_vars

(***************************************************************************)
(* Locations scenario: the same call on a repo whose entries are known by  *)
(* an application path or a profile identifier and have an installer item  *)
(* whose file name holds a version or does not.                            *)
(***************************************************************************)

LocatedPkginfos ==
    {WithVersion(Pkginfo(None, <<>>, i, pr, l), v) :
        i \in {<<>>, <<AppA>>},
        pr \in {None, Some("prof")},
        l \in {None, Some(FooPkg), Some(FooBare)},
        v \in {Ver1_0, Ver2_0}}

InitCatLoc ==
    /\ VerOff /\ DmgOff /\ RefOff /\ NavOff /\ MkOff /\ ItOff /\ ExOff /\ SrOff
    /\ cpc = "idle"
    /\ catalogitems \in UNION {[1..n -> LocatedPkginfos] : n \in 0..MaxItems}
    /\ pkginfo = Pkginfo(None, <<>>, <<>>, None, None)
    /\ catdb = EmptyDB(<<>>)
    /\ caterr = "none"
    /\ matched = NothingMatched

SpecCatLoc == InitCatLoc /\ [][NextCat]_vars

(***************************************************************************)
(* Index scenario: make_catalog_db, as find_matching_pkginfo calls it, on  *)
(* a repo whose catalog has malformed entries, up to its return.           *)
(***************************************************************************)

\* An entry with a name or without one, and receipts and installs that are
\* well formed or lead with a malformed record or are no list at all
MalformedPkginfos ==
    {[Pkginfo(Some("h1"), r, i, None, None) EXCEPT !.name = n] :
        n \in {Some("n"), None},
        r \in {<<Receipt(Some("p"), Some(Ver2_0))>>,
               <<Receipt(None, Some(Ver2_0)), Receipt(Some("p"), Some(Ver2_0))>>,
               <<NotADict("int"), Receipt(Some("p"), Some(Ver2_0))>>,
               <<NotADict("str"), Receipt(Some("p"), Some(Ver2_0))>>,
               NotAList},
        i \in {<<AppA>>,
               <<[type |-> Some("application"), path |-> None], AppA>>,
               <<NotADict("int"), AppA>>,
               NotAList}}

InitIdx ==
    /\ VerOff /\ DmgOff /\ RefOff /\ NavOff /\ MkOff /\ ItOff /\ ExOff /\ SrOff
    /\ cpc = "make"
    /\ catalogitems \in UNION {[1..n -> MalformedPkginfos] : n \in 0..MaxItems}
    /\ pkginfo = Pkginfo(None, <<>>, <<>>, None, None)
    /\ catdb = EmptyDB(<<>>)
    /\ caterr = "none"
    /\ matched = NothingMatched

NextIdx ==
    MakeCatalogDb \/ MakeCatalogDbRaises \/ CatalogReadError \/ CatalogDecodeError

SpecIdx == InitIdx /\ [][NextIdx]_vars

(***************************************************************************)
(* mountdmg and unmountdmg                                                 *)
(*                                                                         *)
(* What the extraction tools do with a disk image is not in the code: a    *)
(* run records it. The directories are followed by whether they exist.     *)
(***************************************************************************)

\* first: the 7-Zip pass on the image left entries in the workspace;
\* installer: _contains_supported_installer found a .app, .pkg or .mpkg;
\* converted: dmg2img produced _converted.img; leftover: dmg2img failed but
\* left a file behind; second: the 7-Zip pass on _converted.img left entries
\* in _inner; embedded: the workspace holds a file with an image extension;
\* third: the 7-Zip pass on that file left entries in _inner.
Runs ==
    [first : BOOLEAN, installer : BOOLEAN, converted : BOOLEAN, leftover : BOOLEAN,
     second : BOOLEAN, embedded : BOOLEAN, third : BOOLEAN]

\* The runs that can happen with the tools that are installed:
\* _extract_7z returns False without seven_zip, _convert_with_dmg2img without
\* dmg2img, and files are found only where a pass left entries.
Feasible(seven_zip_, dmg2img_, run) ==
    /\ (run.first \/ run.second \/ run.third) => seven_zip_
    /\ (run.converted \/ run.leftover) => dmg2img_
    /\ ~(run.converted /\ run.leftover)
    /\ (run.installer \/ run.embedded) => run.first

\* Lines 443-456: `not extracted` after the first pass, when the pass left
\* nothing or dmg2img is there and no installer was found.
Fallback(dmg2img_, run) == ~(run.first /\ ~(dmg2img_ /\ ~run.installer))

\* _dir_has_entries(mountpoint) at line 478
HasEntries(dmg2img_, run) ==
    run.first \/ (Fallback(dmg2img_, run) /\ (run.converted \/ run.leftover))

\* Lines 485-499: a file with an image extension is in the workspace.
Candidate(dmg2img_, run) ==
    \/ Fallback(dmg2img_, run) /\ (run.converted \/ run.leftover)
    \/ run.first /\ run.embedded

Mounted(ret_, workspace_, inner_dir_) ==
    [ret |-> ret_, workspace |-> workspace_, inner_dir |-> inner_dir_]

\* mountdmg(dmgpath): what it returns and the directories it leaves.
mountdmg(seven_zip_, dmg2img_, run) ==
    IF ~seven_zip_ /\ ~dmg2img_
    THEN Mounted("", "none", "none")
    ELSE IF Fallback(dmg2img_, run) /\ run.converted /\ run.second
    THEN Mounted("inner", "exists", "exists")
    ELSE IF Fallback(dmg2img_, run) /\ ~HasEntries(dmg2img_, run)
    THEN Mounted("", "exists", "none")
    ELSE IF Candidate(dmg2img_, run) /\ run.third
    THEN Mounted("inner", "exists", "exists")
    ELSE Mounted("workspace", "exists",
                 IF (Fallback(dmg2img_, run) /\ run.converted)
                        \/ Candidate(dmg2img_, run)
                 THEN "exists" ELSE "none")

\* The workspace after unmountdmg(dmgpath, mountpoint): shutil.rmtree removes
\* the directory it is given and what is below it.
WorkspaceAfterUnmount(mountpoint_, workspace_) ==
    IF mountpoint_ = "workspace" THEN "removed" ELSE workspace_

\* The _inner directory after unmountdmg(dmgpath, mountpoint).
InnerAfterUnmount(mountpoint_, inner_dir_) ==
    IF inner_dir_ = "exists" THEN "removed" ELSE inner_dir_

(***************************************************************************)
(* Disk image scenario: get_catalog_info_from_dmg(dmgpath, options)        *)
(***************************************************************************)

Options == [pkgname : BOOLEAN, item : BOOLEAN]

InitDmg ==
    /\ VerOff /\ CatOff /\ RefOff /\ NavOff /\ MkOff /\ ItOff /\ ExOff /\ SrOff
    /\ dpc = "call"
    /\ seven_zip \in BOOLEAN
    /\ dmg2img \in BOOLEAN
    /\ options \in Options
    /\ workspace = "none"
    /\ inner_dir = "none"
    /\ mountpoint = ""
    /\ cataloginfo = "pending"

\* Lines 719-721: mountpoint = mountdmg(dmgpath); an empty mountpoint raises
\* PkgInfoGenerationError.
Mountdmg ==
    /\ dpc = "call"
    /\ \E run \in Runs :
          /\ Feasible(seven_zip, dmg2img, run)
          /\ mountpoint' = mountdmg(seven_zip, dmg2img, run).ret
          /\ workspace' = mountdmg(seven_zip, dmg2img, run).workspace
          /\ inner_dir' = mountdmg(seven_zip, dmg2img, run).inner_dir
    /\ dpc' = IF mountpoint' = "" THEN "done" ELSE "mounted"
    /\ cataloginfo' = IF mountpoint' = "" THEN "PkgInfoGenerationError" ELSE "pending"
    /\ UNCHANGED <<seven_zip, dmg2img, options, verVars, catVars, refVars, navVars,
                   mkVars, itVars, exVars, srVars>>

\* unmountdmg(dmgpath, mountpoint) and the end of the call with outcome.
UnmountAndEnd(outcome) ==
    /\ workspace' = WorkspaceAfterUnmount(mountpoint, workspace)
    /\ inner_dir' = InnerAfterUnmount(mountpoint, inner_dir)
    /\ cataloginfo' = outcome
    /\ dpc' = "done"
    /\ UNCHANGED <<seven_zip, dmg2img, options, mountpoint, verVars, catVars, refVars, navVars,
                   mkVars, itVars, exVars, srVars>>

\* An exception leaves the call where it is raised.
RaiseAndEnd(outcome) ==
    /\ cataloginfo' = outcome
    /\ dpc' = "done"
    /\ UNCHANGED <<seven_zip, dmg2img, options, mountpoint, workspace, inner_dir,
                   verVars, catVars, refVars, navVars, mkVars, itVars,
                   exVars, srVars>>

\* Lines 764-784 then 863-864: get_catalog_info_from_path returns the
\* metadata of the named package or of the first package found.
PackageEntry ==
    /\ dpc = "mounted"
    /\ options.pkgname \/ ~options.item
    /\ UnmountAndEnd("entry")

\* get_catalog_info_from_path raises while it reads the package (for one,
\* KeyError at line 903 for a receipt without a version).
PackageRaises ==
    /\ dpc = "mounted"
    /\ options.pkgname \/ ~options.item
    /\ RaiseAndEnd("error")

\* Lines 790-808: the given item is not on the image.
ItemNotFound ==
    /\ dpc = "mounted"
    /\ options.item
    /\ UnmountAndEnd("PkgInfoGenerationError")

\* Lines 790-804 and 828-864: getiteminfo describes the given item.
ItemEntry ==
    /\ dpc = "mounted"
    /\ options.item
    /\ UnmountAndEnd("copy_from_dmg")

\* getiteminfo raises (TypeError at line 278 for a bundle whose Info.plist
\* cannot be read).
ItemRaises ==
    /\ dpc = "mounted"
    /\ options.item
    /\ RaiseAndEnd("error")

\* Lines 809-864: no item given, an application is found on the image.
AppEntry ==
    /\ dpc = "mounted"
    /\ ~options.item
    /\ UnmountAndEnd("copy_from_dmg")

\* No package and no application is found: the call returns None.
NoEntry ==
    /\ dpc = "mounted"
    /\ ~options.item
    /\ UnmountAndEnd("nothing")

NextDmg ==
    \/ Mountdmg
    \/ PackageEntry \/ PackageRaises
    \/ ItemNotFound \/ ItemEntry \/ ItemRaises
    \/ AppEntry \/ NoEntry

SpecDmg == InitDmg /\ [][NextDmg]_vars

(***************************************************************************)
(* getReceiptInfo, getFlatPackageInfo and parsePkgRefs on flat packages    *)
(*                                                                         *)
(* A flat package is what 7z extracts from it: its PackageInfo files in    *)
(* the order of os.walk, the pkg-ref elements of its Distribution, and     *)
(* whether the Distribution is XML that minidom.parse accepts.             *)
(***************************************************************************)

PkgPaths == {"A.pkg", "B.pkg"}

\* A pkg-ref element: its id, its version attribute if any, and the path its
\* text resolves to if the text ends in .pkg.
PkgRef(id_, version_, file_) == [id |-> id_, version |-> version_, file |-> file_]

\* One round of the loop of lines 1434-1461: the record of the id is made
\* when the id is new, version and file are set when the element has them.
MergeRef(pkgref_dict, ref) ==
    IF \E k \in 1..Len(pkgref_dict) : pkgref_dict[k].packageid = ref.id
    THEN [k \in 1..Len(pkgref_dict) |->
            IF pkgref_dict[k].packageid = ref.id
            THEN [packageid |-> ref.id,
                  version |-> IF Has(ref.version) THEN ref.version
                              ELSE pkgref_dict[k].version,
                  file |-> IF Has(ref.file) THEN ref.file ELSE pkgref_dict[k].file]
            ELSE pkgref_dict[k]]
    ELSE Append(pkgref_dict,
                [packageid |-> ref.id, version |-> ref.version, file |-> ref.file])

RECURSIVE PkgRefDict(_, _)
\* pkgref_dict after the loop over the pkg-ref elements, in insertion order.
PkgRefDict(refs, pkgref_dict) ==
    IF refs = <<>> THEN pkgref_dict
    ELSE PkgRefDict(Tail(refs), MergeRef(pkgref_dict, Head(refs)))

\* os.path.exists(pkgref['file'])
FileExists(pkgref) == Has(pkgref.file) /\ Val(pkgref.file) \in PkgPaths

\* A PackageInfo file with one pkg-info element that has an identifier, a
\* version and a payload
PackageInfoFile(identifier_, version_) ==
    [parses |-> TRUE, identifier |-> identifier_, version |-> version_]

\* A PackageInfo file that is no XML: minidom.parse (line 1406) raises
\* ExpatError.
NoXML == [parses |-> FALSE, identifier |-> "", version |-> <<>>]

RECURSIVE PackageInfoReceipts(_)
\* Lines 1357-1362: receiptarray.extend(parsePkgRefs(...)) for each
\* PackageInfo file; `pkginfo not in info` (line 1424) looks at the info of
\* one file only.
PackageInfoReceipts(files) ==
    IF files = <<>> THEN <<>>
    ELSE <<Receipt(Some(Head(files).identifier), Some(Head(files).version))>>
            \o PackageInfoReceipts(Tail(files))

\* minidom.parse raises inside the try block of getFlatPackageInfo: on a
\* PackageInfo file (line 1362), or on the Distribution, which is parsed for
\* its pkg-ref elements when no PackageInfo left a receipt (line 1370) and
\* for the product version in any case (line 1383).
ParseRaises(package) ==
    \/ ~package.distribution_parses
    \/ \E k \in 1..Len(package.packageinfos) : ~package.packageinfos[k].parses

\* getFlatPackageInfo(path) once the package is extracted: the receipts of
\* its PackageInfo files, or without them parsePkgRefs at the start of its
\* loop over pkgref_dict (line 1463).
NewFrame(packages_, path) ==
    IF packages_[path].packageinfos # <<>>
    THEN [pkg |-> path, pkgref_dict |-> <<>>, next |-> 1,
          info |-> PackageInfoReceipts(packages_[path].packageinfos)]
    ELSE [pkg |-> path, pkgref_dict |-> PkgRefDict(packages_[path].distribution, <<>>),
          next |-> 1, info |-> <<>>]

\* The loop moves on after info.extend(receipts_) or info.append(...).
Advance(frame, receipts_) ==
    [pkg |-> frame.pkg, pkgref_dict |-> frame.pkgref_dict, next |-> frame.next + 1,
     info |-> frame.info \o receipts_]

\* The receipt a pkg-ref leaves when it is not expanded (lines 1470-1473).
LeafReceipts(pkgref) ==
    IF Has(pkgref.version)
    THEN <<Receipt(Some(pkgref.packageid), pkgref.version)>>
    ELSE <<>>

Pop(stack_) == SubSeq(stack_, 1, Len(stack_) - 1)

ReplaceTop(stack_, frame) == Append(Pop(stack_), frame)

\* The messages of lines 1341, 1352 and 1388
NotInstalled == "7z is not installed"
ErrorExtracting == "Error extracting"
ErrorProcessing == "Error processing"

(***************************************************************************)
(* Receipt scenario: getReceiptInfo is called on the flat package A.pkg,   *)
(* next to which B.pkg lies.                                               *)
(***************************************************************************)

\* Longest list of pkg-ref elements in the Distribution of A.pkg.
MaxRefs == 2

\* Most PackageInfo files in a package.
MaxInfos == 2

\* Nested packages after which Python raises RecursionError.
RecursionLimit == 3

Root == "A.pkg"

PkgRefs ==
    {PkgRef(id_, version_, file_) :
        id_ \in {"a", "b"}, version_ \in {None, Some(Ver1_0)},
        file_ \in {None, Some("A.pkg"), Some("B.pkg"), Some("missing.pkg")}}

Distributions(n) == UNION {[1..k -> PkgRefs] : k \in 0..n}

PackageInfoFiles == {PackageInfoFile(i, Ver1_0) : i \in {"a", "b"}} \cup {NoXML}

FlatPackages(n) ==
    {[packageinfos |-> <<>>, distribution |-> d, distribution_parses |-> TRUE] :
        d \in Distributions(n)}
    \cup {[packageinfos |-> f, distribution |-> <<>>, distribution_parses |-> ok] :
            f \in UNION {[1..k -> PackageInfoFiles] : k \in 0..MaxInfos},
            ok \in BOOLEAN}

InitRefs ==
    /\ VerOff /\ CatOff /\ DmgOff /\ NavOff /\ MkOff /\ ItOff /\ ExOff /\ SrOff
    /\ rpc = "idle"
    /\ \E a \in FlatPackages(MaxRefs), b \in FlatPackages(1) :
          packages = [path \in PkgPaths |-> IF path = Root THEN a ELSE b]
    /\ stack = <<>>
    /\ receiptinfo = <<>>
    /\ pkgtmp = 0
    /\ stderr = {}

Top == stack[Len(stack)]

Current == Top.pkgref_dict[Top.next]

InLoop == rpc = "running" /\ Top.next <= Len(Top.pkgref_dict)

\* The innermost getFlatPackageInfo returns receipts_: the outermost call is
\* over, or the parsePkgRefs that called extends its info and goes on.
ReturnTo(receipts_) ==
    IF Len(stack) = 1
    THEN /\ rpc' = "done"
         /\ receiptinfo' = receipts_
         /\ stack' = <<>>
    ELSE /\ stack' = ReplaceTop(Pop(stack), Advance(stack[Len(stack) - 1], receipts_))
         /\ UNCHANGED <<rpc, receiptinfo>>

\* getReceiptInfo(Root): pkgtmp is made, the package is extracted into it
\* and its manifests are parsed.
GetReceiptInfo ==
    /\ rpc = "idle"
    /\ ~ParseRaises(packages[Root])
    /\ stack' = <<NewFrame(packages, Root)>>
    /\ pkgtmp' = pkgtmp + 1
    /\ rpc' = "running"
    /\ UNCHANGED <<packages, receiptinfo, stderr, verVars, catVars, dmgVars, navVars,
                   mkVars, itVars, exVars, srVars>>

\* Lines 1333-1344: pkgtmp is made, shutil.which finds no 7z, and the
\* function returns before its try statement.
SevenZipMissing ==
    /\ rpc = "idle"
    /\ pkgtmp' = pkgtmp + 1
    /\ stderr' = stderr \cup {<<Root, NotInstalled>>}
    /\ rpc' = "done"
    /\ receiptinfo' = <<>>
    /\ UNCHANGED <<packages, stack, verVars, catVars, dmgVars, navVars, mkVars,
                   itVars, exVars, srVars>>

\* Lines 1349-1355: 7z exits with a code other than 0, no receipts; the
\* finally block removes pkgtmp.
ExtractFails ==
    /\ rpc = "idle"
    /\ stderr' = stderr \cup {<<Root, ErrorExtracting>>}
    /\ rpc' = "done"
    /\ receiptinfo' = <<>>
    /\ UNCHANGED <<packages, stack, pkgtmp, verVars, catVars, dmgVars, navVars,
                   mkVars, itVars, exVars, srVars>>

\* Lines 1387-1393: a manifest of the package is no XML, `except Exception`
\* returns no receipts; the finally block removes pkgtmp.
ParseError ==
    /\ rpc = "idle"
    /\ ParseRaises(packages[Root])
    /\ stderr' = stderr \cup {<<Root, ErrorProcessing>>}
    /\ rpc' = "done"
    /\ receiptinfo' = <<>>
    /\ UNCHANGED <<packages, stack, pkgtmp, verVars, catVars, dmgVars, navVars,
                   mkVars, itVars, exVars, srVars>>

\* Lines 1464-1467: the file of the pkg-ref exists, getReceiptInfo is called
\* on it.
Descend ==
    /\ InLoop
    /\ FileExists(Current)
    /\ Len(stack) < RecursionLimit
    /\ ~ParseRaises(packages[Val(Current.file)])
    /\ stack' = Append(stack, NewFrame(packages, Val(Current.file)))
    /\ pkgtmp' = pkgtmp + 1
    /\ UNCHANGED <<rpc, packages, receiptinfo, stderr, verVars, catVars, dmgVars, navVars,
                   mkVars, itVars, exVars, srVars>>

\* The same call when 7z fails on the nested package: no receipts, the loop
\* goes on (line 1469).
NestedExtractFails ==
    /\ InLoop
    /\ FileExists(Current)
    /\ Len(stack) < RecursionLimit
    /\ stack' = ReplaceTop(stack, Advance(Top, <<>>))
    /\ stderr' = stderr \cup {<<Val(Current.file), ErrorExtracting>>}
    /\ UNCHANGED <<rpc, packages, receiptinfo, pkgtmp, verVars, catVars, dmgVars, navVars,
                   mkVars, itVars, exVars, srVars>>

\* The same call when a manifest of the nested package is no XML: no
\* receipts of the nested package, the loop goes on.
NestedParseError ==
    /\ InLoop
    /\ FileExists(Current)
    /\ Len(stack) < RecursionLimit
    /\ ParseRaises(packages[Val(Current.file)])
    /\ stack' = ReplaceTop(stack, Advance(Top, <<>>))
    /\ stderr' = stderr \cup {<<Val(Current.file), ErrorProcessing>>}
    /\ UNCHANGED <<rpc, packages, receiptinfo, pkgtmp, verVars, catVars, dmgVars, navVars,
                   mkVars, itVars, exVars, srVars>>

\* The call cannot nest deeper: RecursionError, caught by `except Exception`
\* of the innermost getFlatPackageInfo (line 1387), which returns no
\* receipts.
RecursionError ==
    /\ InLoop
    /\ FileExists(Current)
    /\ Len(stack) >= RecursionLimit
    /\ ReturnTo(<<>>)
    /\ pkgtmp' = pkgtmp - 1
    /\ stderr' = stderr \cup {<<Top.pkg, ErrorProcessing>>}
    /\ UNCHANGED <<packages, verVars, catVars, dmgVars, navVars, mkVars, itVars,
                   exVars, srVars>>

\* Lines 1470-1473: a pkg-ref without an existing file is kept when it has a
\* version.
Leaf ==
    /\ InLoop
    /\ ~FileExists(Current)
    /\ stack' = ReplaceTop(stack, Advance(Top, LeafReceipts(Current)))
    /\ UNCHANGED <<rpc, packages, receiptinfo, pkgtmp, stderr, verVars, catVars, dmgVars, navVars,
                   mkVars, itVars, exVars, srVars>>

\* parsePkgRefs is through its loop: getFlatPackageInfo removes pkgtmp and
\* returns info.
Return ==
    /\ rpc = "running"
    /\ Top.next > Len(Top.pkgref_dict)
    /\ ReturnTo(Top.info)
    /\ pkgtmp' = pkgtmp - 1
    /\ UNCHANGED <<packages, stderr, verVars, catVars, dmgVars, navVars, mkVars,
                   itVars, exVars, srVars>>

NextRefs ==
    \/ GetReceiptInfo \/ SevenZipMissing \/ ExtractFails \/ ParseError
    \/ Descend \/ NestedExtractFails \/ NestedParseError \/ RecursionError
    \/ Leaf \/ Return

SpecRefs == InitRefs /\ [][NextRefs]_vars

(***************************************************************************)
(* Name scenario: nameAndVersion is called on a string.                    *)
(***************************************************************************)

\* Longest string made of NameAlphabet.
MaxNameLen == 4

NameAlphabet == {"f", "v", "b", "1", ".", "_", "-"}

BoundedNames == UNION {[1..n -> NameAlphabet] : n \in 0..MaxNameLen}

\* Texts the version pattern of line 1289 matches, and one it does not
VersionTexts ==
    {<<"1", ".", "1", ".", "1">>, <<"1", ".", "1", "b", "1">>,
     <<"1", "1", ".", "1", "v", "1", ".", "1">>, <<"1", ".", "1">>}

\* The examples of the docstring, and a name without a version
ExampleNames ==
    {<<"T", "e", "x", "t", "W", "r", "a", "n", "g", "l", "e", "r", "2", ".", "3",
       "b", "1">>,
     <<"A", "d", "o", "b", "e", "P", "h", "o", "t", "o", "s", "h", "o", "p", "C",
       "S", "3", "-", "1", "1", ".", "2", ".", "1">>,
     <<"M", "i", "c", "r", "o", "s", "o", "f", "t", "O", "f", "f", "i", "c", "e",
       "2", "0", "0", "8", "v", "1", "2", ".", "2", ".", "1">>,
     <<"p", "l", "a", "i", "n", "n", "a", "m", "e">>}

\* Every short string, every version text between two short strings, and
\* the examples
NameInputs ==
    BoundedNames
    \cup {before \o text \o after :
            before \in UNION {[1..n -> NameAlphabet] : n \in 0..2},
            text \in VersionTexts,
            after \in UNION {[1..n -> NameAlphabet] : n \in 0..1}}
    \cup ExampleNames

InitNav ==
    /\ VerOff /\ CatOff /\ DmgOff /\ RefOff /\ MkOff /\ ItOff /\ ExOff /\ SrOff
    /\ npc = "idle"
    /\ aString \in NameInputs
    /\ nameVers = <<<<>>, <<>>>>

\* nameAndVersion(aString) returns.
NameAndVersion ==
    /\ npc = "idle"
    /\ nameVers' = nameAndVersion(aString)
    /\ npc' = "done"
    /\ UNCHANGED <<aString, verVars, catVars, dmgVars, refVars, mkVars, itVars,
                   exVars, srVars>>

NextNav == NameAndVersion

SpecNav == InitNav /\ [][NextNav]_vars

(***************************************************************************)
(* Import scenario: makepkginfo is called on an installer item and         *)
(* find_matching_pkginfo on the pkginfo it returns, as main does, and then *)
(* both once more on the same item and the same repo.                      *)
(***************************************************************************)

MaxDirs == 3
MaxCalls == 2
MaxNow == 2

Pkgs == <<"p", "k", "g", "s">>
DirNames == {Pkgs, <<"a">>, <<"x">> \o Pkgs}
FileDmg == <<"c", ".", "d", "m", "g">>
FilePkg == <<"c", ".", "p", "k", "g">>
FileTxt == <<"c", ".", "t", "x", "t">>

RECURSIVE Join(_)
\* os.path.join of the names
Join(names) ==
    IF Len(names) = 1 THEN names[1]
    ELSE names[1] \o <<"/">> \o Join(Tail(names))

\* Disk images below up to MaxDirs directories, by relative and by absolute
\* path
ImagePaths ==
    LET dirs == UNION {[1..n -> DirNames] : n \in 0..MaxDirs}
    IN  {root \o Join(d \o <<FileDmg>>) : root \in {<<>>, <<"/">>}, d \in dirs}

PkgsDir == <<"/">> \o Join(<<Pkgs, <<"a">>, FileDmg>>)

V10_4 == <<"1", "0", ".", "4">>
V10_4_0_1 == <<"1", "0", ".", "4", ".", "0", ".", "1">>
V10_5_0 == <<"1", "0", ".", "5", ".", "0">>
V9_0 == <<"9", ".", "0">>
V10_10 == <<"1", "0", ".", "1", "0">>
V11 == <<"1", "1">>

\* LSMinimumSystemVersion of an application, if it has one
MinOsVersions == {None} \cup {Some(v) : v \in {V10_4, V10_4_0_1, V10_6, V9_0, V10_10, V11}}

\* What getPackageMetaData returns (lines 921-939): a flat package has the
\* minimum_os_version 10.5.0, a bundle has none.
PackageInfo(receipts_, minimum_os_version_) ==
    [found |-> TRUE, name |-> Some("n"), version |-> Some(Ver1_0),
     receipts |-> receipts_, installs |-> <<>>, installer_type |-> None,
     minimum_os_version |-> minimum_os_version_,
     uninstall_method |-> None, uninstallable |-> None]

\* What get_catalog_info_from_dmg returns for an application (lines 846-861)
AppInfo(minosversion_) ==
    [found |-> TRUE, name |-> Some("n"), version |-> Some(Ver1_0),
     receipts |-> <<>>,
     installs |-> <<[type |-> Some("application"), path |-> Some("/A"),
                     minosversion |-> minosversion_]>>,
     installer_type |-> Some("copy_from_dmg"), minimum_os_version |-> None,
     uninstall_method |-> Some("remove_copied_items"),
     uninstallable |-> Some(TRUE)]

PackageInfos ==
    {PackageInfo(r, m) : r \in {<<>>, <<Receipt(Some("p"), Some(Ver1_0))>>},
                         m \in {None, Some(V10_5_0)}}

AppInfos == {AppInfo(m) : m \in MinOsVersions}

\* The repo: empty, or with an item known by the hash of the installer item,
\* or by the path of the application
ImportCatalogs ==
    {<<>>,
     <<Pkginfo(Some("h1"), <<>>, <<>>, None, None)>>,
     <<Pkginfo(None, <<>>, <<AppA>>, None, Some(FileDmg)),
       Pkginfo(Some("h2"), <<>>, <<AppA>>, None, None)>>}

ImportInput(installeritem_, itemkind_, catinfo_, nopkg_, catalogitems_) ==
    [installeritem |-> installeritem_, itemkind |-> itemkind_,
     catinfo |-> catinfo_, nopkg |-> nopkg_, catalogitems |-> catalogitems_]

\* Every path with one application, every kind of item at one path, and the
\* call without an installer item.
ImportInputs ==
    {ImportInput(path, "file", AppInfo(Some(V10_6)), FALSE, <<>>) : path \in ImagePaths}
    \cup {ImportInput(PkgsDir, "file", c, FALSE, r) :
            c \in AppInfos \cup PackageInfos \cup {NoCatInfo}, r \in ImportCatalogs}
    \cup {ImportInput(<<"/">> \o Join(<<Pkgs, f>>), k, c, FALSE, <<>>) :
            f \in {FilePkg, FileTxt}, k \in {"file", "dir", "missing"},
            c \in PackageInfos \cup {NoCatInfo}}
    \cup {ImportInput(<<>>, "missing", NoCatInfo, n, <<>>) : n \in BOOLEAN}

InitImport ==
    /\ VerOff /\ DmgOff /\ RefOff /\ NavOff /\ ItOff /\ ExOff /\ SrOff
    /\ cpc = "off"
    /\ pkginfo = Pkginfo(None, <<>>, <<>>, None, None)
    /\ catdb = EmptyDB(<<>>)
    /\ caterr = "none"
    /\ matched = NothingMatched
    /\ mpc = "idle"
    /\ \E input \in ImportInputs :
          /\ installeritem = input.installeritem
          /\ itemkind = input.itemkind
          /\ catinfo = input.catinfo
          /\ nopkg = input.nopkg
          /\ catalogitems = input.catalogitems
    /\ now = 0
    /\ entries = <<>>
    /\ finds = <<>>

\* makepkginfo(installeritem, options) returns a pkginfo.
Makepkginfo ==
    /\ mpc = "idle"
    /\ Len(entries) < MaxCalls
    /\ installeritem # <<>> => ~MakeRaises(installeritem, itemkind, catinfo)
    /\ entries' = Append(entries,
                         makepkginfo(installeritem, itemkind, catinfo, nopkg, now))
    /\ mpc' = "made"
    /\ UNCHANGED <<installeritem, itemkind, catinfo, nopkg, now, finds,
                   verVars, catVars, dmgVars, refVars, navVars, itVars,
                   exVars, srVars>>

\* makepkginfo raises PkgInfoGenerationError and the import ends.
MakepkginfoRaises ==
    /\ mpc = "idle"
    /\ Len(entries) < MaxCalls
    /\ installeritem # <<>>
    /\ MakeRaises(installeritem, itemkind, catinfo)
    /\ entries' = Append(entries, MakeRaised)
    /\ finds' = Append(finds, NothingMatched)
    /\ UNCHANGED <<mpc, installeritem, itemkind, catinfo, nopkg, now,
                   verVars, catVars, dmgVars, refVars, navVars, itVars,
                   exVars, srVars>>

\* find_matching_pkginfo(repo, pkginfo) returns for the pkginfo just made.
FindMatching ==
    /\ mpc = "made"
    /\ finds' = Append(finds, MatchIn(make_catalog_db(catalogitems),
                                      entries[Len(entries)]))
    /\ mpc' = "idle"
    /\ UNCHANGED <<installeritem, itemkind, catinfo, nopkg, now, entries,
                   verVars, catVars, dmgVars, refVars, navVars, itVars,
                   exVars, srVars>>

\* Time passes.
Tick ==
    /\ mpc # "off"
    /\ now < MaxNow
    /\ now' = now + 1
    /\ UNCHANGED <<mpc, installeritem, itemkind, catinfo, nopkg, entries, finds,
                   verVars, catVars, dmgVars, refVars, navVars, itVars,
                   exVars, srVars>>

NextImport == Makepkginfo \/ MakepkginfoRaises \/ FindMatching \/ Tick

SpecImport == InitImport /\ [][NextImport]_vars

(***************************************************************************)
(* get_catalog_info_from_dmg with options.item (lines 786-864)             *)
(*                                                                         *)
(* The file system is the set of its files, each the sequence of the names *)
(* from the root down; a directory is there when a file is below it. There *)
(* are no symbolic links.                                                  *)
(***************************************************************************)

RECURSIVE split(_, _)
\* str.split(sep) for a separator of one character
split(s, sep) ==
    IF \E i \in 1..Len(s) : s[i] = sep
    THEN LET k == CHOOSE i \in 1..Len(s) :
                     s[i] = sep /\ \A j \in 1..(i - 1) : s[j] # sep
         IN  <<Upto(s, k - 1)>> \o split(From(s, k), sep)
    ELSE <<s>>

DotDot == <<".", ".">>

RECURSIVE NormComps(_, _, _)
\* The loop of posixpath.normpath over the components: '' and '.' are
\* dropped, '..' takes the last component away unless there is none to take
\* or that one is '..' itself.
NormComps(comps, new_comps, initial_slashes) ==
    IF comps = <<>> THEN new_comps
    ELSE LET comp == Head(comps)
         IN  NormComps(
                Tail(comps),
                IF comp = <<>> \/ comp = <<".">> THEN new_comps
                ELSE IF \/ comp # DotDot
                        \/ ~initial_slashes /\ new_comps = <<>>
                        \/ new_comps # <<>> /\ new_comps[Len(new_comps)] = DotDot
                THEN Append(new_comps, comp)
                ELSE IF new_comps # <<>> THEN Upto(new_comps, Len(new_comps) - 1)
                ELSE new_comps,
                initial_slashes)

\* os.path.normpath, for paths that do not start with two slashes
normpath(path) ==
    LET initial_slashes == startswith(path, <<"/">>)
        comps == NormComps(split(path, "/"), <<>>, initial_slashes)
        joined == (IF initial_slashes THEN <<"/">> ELSE <<>>)
                  \o (IF comps = <<>> THEN <<>> ELSE Join(comps))
    IN  IF joined = <<>> THEN <<".">> ELSE joined

\* os.path.join(a, b)
join(a, b) ==
    IF startswith(b, <<"/">>) THEN b
    ELSE IF a = <<>> \/ endswith(a, <<"/">>) THEN a \o b
    ELSE a \o <<"/">> \o b

\* The directory the disk image is extracted to, made by mountdmg
WorkspaceNames == <<<<"t">>, <<"w">>>>
Workspace == <<"/">> \o Join(WorkspaceNames)

\* names is at or below the directory dir
Below(names, dir) == Len(names) >= Len(dir) /\ SubSeq(names, 1, Len(dir)) = dir

IsDir(disk_, names) ==
    \/ names = WorkspaceNames
    \/ \E f \in disk_ \cup {WorkspaceNames} : Len(f) > Len(names) /\ Below(f, names)

\* No file or directory: no name is a slash
ENOENT == <<<<"/">>>>

RECURSIVE Lookup(_, _, _)
\* What the kernel reaches from the directory cur along the components: '..'
\* is the parent of the directory reached so far, every other name an entry
\* of it.
Lookup(disk_, cur, comps) ==
    IF cur = ENOENT \/ comps = <<>> THEN cur
    ELSE IF ~IsDir(disk_, cur) THEN ENOENT
    ELSE LET comp == Head(comps)
             next == Append(cur, comp)
         IN  Lookup(disk_,
                    IF comp = <<>> \/ comp = <<".">> THEN cur
                    ELSE IF comp = DotDot
                    THEN Upto(cur, IF cur = <<>> THEN 0 ELSE Len(cur) - 1)
                    ELSE IF next \in disk_ \/ IsDir(disk_, next) THEN next
                    ELSE ENOENT,
                    Tail(comps))

\* os.path.exists of an absolute path
exists(disk_, path) == Lookup(disk_, <<>>, split(path, "/")) # ENOENT

\* Line 800: the item exists and its normalized path starts with that of the
\* mount point.
Accepted(disk_, item) ==
    LET itempath == join(Workspace, item)
    IN  /\ exists(disk_, itempath)
        /\ startswith(normpath(itempath), normpath(Workspace))

\* Lines 830-838: re.sub of '^<mountpoint>/' in the normalized item when the
\* item is an absolute path
SourceItem(item) ==
    LET pattern == normpath(Workspace) \o <<"/">>
    IN  IF startswith(item, <<"/">>)
        THEN IF startswith(normpath(item), pattern)
             THEN From(normpath(item), Len(pattern))
             ELSE normpath(item)
        ELSE item

\* Lines 846-861: the entry for the item
ItemOut(item) ==
    [outcome |-> "copy_from_dmg",
     source_item |-> SourceItem(item),
     path |-> join(<<"/", "A", "p", "p", "l", "i", "c", "a", "t", "i", "o", "n", "s">>,
                   basename(SourceItem(item)))]

\* Lines 805-808: PkgInfoGenerationError, "... not found on disk image."
ItemNotFoundError ==
    [outcome |-> "PkgInfoGenerationError", source_item |-> <<>>, path |-> <<>>]

\* unmountdmg removes the workspace and what is below it.
Unmounted(disk_) == {f \in disk_ : ~Below(f, WorkspaceNames)}

(***************************************************************************)
(* Item scenario: the disk image is extracted, options.item names an item, *)
(* options.pkgname is not given.                                           *)
(***************************************************************************)

DirW == <<"w", "x">>

\* The files there may be: two in the workspace, one in a directory next to
\* it whose name starts with that of the workspace, one elsewhere
DiskFiles ==
    {WorkspaceNames \o <<<<"f">>>>,
     WorkspaceNames \o <<<<"d">>, <<"f">>>>,
     <<<<"t">>, DirW, <<"f">>>>,
     <<<<"e">>, <<"f">>>>}

\* Relative and absolute items, inside and outside the workspace
Items ==
    {<<"f">>, <<"g">>, DotDot,
     Join(<<<<"d">>, <<"f">>>>),
     Join(<<<<"d">>, DotDot, <<"f">>>>),
     Join(<<DotDot, <<"w">>, <<"f">>>>),
     Join(<<DotDot, DirW, <<"f">>>>),
     Join(<<DotDot, DotDot, <<"e">>, <<"f">>>>),
     Workspace \o <<"/", "f">>,
     Workspace \o <<"x", "/", "f">>,
     Workspace \o <<"/">> \o Join(<<DotDot, DirW, <<"f">>>>),
     <<"/", "e", "/", "f">>}

InitItem ==
    /\ VerOff /\ CatOff /\ DmgOff /\ RefOff /\ NavOff /\ MkOff /\ ExOff /\ SrOff
    /\ ipc = "mounted"
    /\ optitem \in Items
    /\ disk \in SUBSET DiskFiles
    /\ itemout = NoItemOut

\* Lines 786-804 and 828-864: the item is accepted, getiteminfo describes it,
\* the workspace is removed and the entry returned.
ItemFound ==
    /\ ipc = "mounted"
    /\ Accepted(disk, optitem)
    /\ itemout' = ItemOut(optitem)
    /\ disk' = Unmounted(disk)
    /\ ipc' = "done"
    /\ UNCHANGED <<optitem, verVars, catVars, dmgVars, refVars, navVars, mkVars,
                   exVars, srVars>>

\* Lines 786-808: the item is not accepted, the workspace is removed and
\* PkgInfoGenerationError raised.
ItemNotOnImage ==
    /\ ipc = "mounted"
    /\ ~Accepted(disk, optitem)
    /\ itemout' = ItemNotFoundError
    /\ disk' = Unmounted(disk)
    /\ ipc' = "done"
    /\ UNCHANGED <<optitem, verVars, catVars, dmgVars, refVars, navVars, mkVars,
                   exVars, srVars>>

NextItem == ItemFound \/ ItemNotOnImage

SpecItem == InitItem /\ [][NextItem]_vars

(***************************************************************************)
(* The extraction tool in mountdmg, getFlatPackageInfo, getPkgRestartInfo  *)
(*                                                                         *)
(* subprocess.run of 7z ends with a returncode and leaves files in the     *)
(* destination directory; neither is in the code, a proc records both.     *)
(***************************************************************************)

\* A Distribution file without pkg-ref elements: its restartAction element
\* and the version attribute of its product element, where it has them.
Distribution(restartAction_, product_version_) ==
    [restartAction |-> restartAction_, product_version |-> product_version_]

\* The files the tool left: PackageInfo files, and a Distribution or none.
Left(packageinfos_, distribution_) ==
    [packageinfos |-> packageinfos_, distribution |-> distribution_]

Proc(returncode_, left_) == [returncode |-> returncode_, left |-> left_]

\* _dir_has_entries(dest), lines 354-358
dir_has_entries(left_) == left_.packageinfos # <<>> \/ left_.distribution # <<>>

\* _extract_7z(src, dest), lines 381-395: a returncode other than 0 prints a
\* warning, and what is returned is whether dest has entries.
extract_7z(seven_zip_, proc_) == seven_zip_ /\ dir_has_entries(proc_.left)

\* The 7-Zip pass of mountdmg on the image, where dmg2img is not installed
\* and the image holds no other image.
FirstPass(seven_zip_, proc_) ==
    [first |-> extract_7z(seven_zip_, proc_), installer |-> FALSE,
     converted |-> FALSE, leftover |-> FALSE, second |-> FALSE,
     embedded |-> FALSE, third |-> FALSE]

\* {"receipts": [], "product_version": None}
NoFlatPackageInfo == [receipts |-> <<>>, product_version |-> None]

\* getFlatPackageInfo(pkgpath), lines 1326-1399: nothing without 7z (line
\* 1344), nothing when 7z exits with a returncode other than 0 (line 1355),
\* nothing when a PackageInfo file is no XML (line 1389); else the receipts
\* of the PackageInfo files and the product version of the Distribution.
getFlatPackageInfo(which7z_, proc_) ==
    IF ~which7z_ THEN NoFlatPackageInfo
    ELSE IF proc_.returncode # 0 THEN NoFlatPackageInfo
    ELSE IF \E k \in 1..Len(proc_.left.packageinfos) :
                ~proc_.left.packageinfos[k].parses
    THEN NoFlatPackageInfo
    ELSE [receipts |-> PackageInfoReceipts(proc_.left.packageinfos),
          product_version |->
              IF proc_.left.distribution # <<>>
              THEN proc_.left.distribution[1].product_version
              ELSE None]

\* getPkgRestartInfo(filename), lines 1135-1195: {} without 7z (line 1142),
\* {} when 7z exits with a returncode other than 0 (line 1153); else the
\* RestartAction of the Distribution unless it is "None" (line 1182). A
\* PackageInfo file has no restartAction element.
getPkgRestartInfo(which7z_, proc_) ==
    IF ~which7z_ THEN None
    ELSE IF proc_.returncode # 0 THEN None
    ELSE IF /\ proc_.left.distribution # <<>>
            /\ Has(proc_.left.distribution[1].restartAction)
            /\ Val(proc_.left.distribution[1].restartAction) # "None"
    THEN proc_.left.distribution[1].restartAction
    ELSE None

(***************************************************************************)
(* Extraction scenario: the three functions are called on a file on which  *)
(* the tool ends with proc.                                                *)
(***************************************************************************)

Returncodes == {0, 1, 2}

Lefts ==
    {Left(f, d) :
        f \in UNION {[1..k -> PackageInfoFiles] : k \in 0..MaxInfos},
        d \in {<<>>} \cup
              {<<Distribution(r, v)>> :
                  r \in {None, Some("RequireRestart"), Some("None")},
                  v \in {None, Some(Ver1_0)}}}

NoneReturned == [mountdmg |-> <<>>, getFlatPackageInfo |-> <<>>, getPkgRestartInfo |-> <<>>]

InitEx ==
    /\ VerOff /\ CatOff /\ DmgOff /\ RefOff /\ NavOff /\ MkOff /\ ItOff /\ SrOff
    /\ xpc = "run"
    /\ which7z \in BOOLEAN
    /\ proc \in {Proc(c, l) : c \in Returncodes, l \in Lefts}
    /\ returned = NoneReturned

\* mountdmg(dmgpath)
CallMountdmg ==
    /\ xpc = "run"
    /\ returned.mountdmg = <<>>
    /\ returned' = [returned EXCEPT
                        !.mountdmg =
                            <<mountdmg(which7z, FALSE, FirstPass(which7z, proc)).ret>>]
    /\ UNCHANGED <<xpc, which7z, proc, verVars, catVars, dmgVars, refVars, navVars,
                   mkVars, itVars, srVars>>

\* getFlatPackageInfo(pkgpath)
CallGetFlatPackageInfo ==
    /\ xpc = "run"
    /\ returned.getFlatPackageInfo = <<>>
    /\ returned' = [returned EXCEPT
                        !.getFlatPackageInfo = <<getFlatPackageInfo(which7z, proc)>>]
    /\ UNCHANGED <<xpc, which7z, proc, verVars, catVars, dmgVars, refVars, navVars,
                   mkVars, itVars, srVars>>

\* getPkgRestartInfo(filename)
CallGetPkgRestartInfo ==
    /\ xpc = "run"
    /\ returned.getPkgRestartInfo = <<>>
    /\ returned' = [returned EXCEPT
                        !.getPkgRestartInfo = <<getPkgRestartInfo(which7z, proc)>>]
    /\ UNCHANGED <<xpc, which7z, proc, verVars, catVars, dmgVars, refVars, navVars,
                   mkVars, itVars, srVars>>

NextEx == CallMountdmg \/ CallGetFlatPackageInfo \/ CallGetPkgRestartInfo

SpecEx == InitEx /\ [][NextEx]_vars

(***************************************************************************)
(* The package search of get_catalog_info_from_dmg                         *)
(*                                                                         *)
(* A directory is its listing: its entries in the order in which os.scandir *)
(* yields them, which is the order of os.listdir and of os.walk. A path is *)
(* the sequence of the names from the workspace down.                      *)
(***************************************************************************)

File(name_) == [name |-> name_, isdir |-> FALSE, listing |-> <<>>]

Dir(name_, listing_) == [name |-> name_, isdir |-> TRUE, listing |-> listing_]

\* The names of the entries of a listing
NamesOf(listing_) == [i \in 1..Len(listing_) |-> listing_[i].name]

\* max_depth of _walk_limited
max_depth == 4

RECURSIVE walk_limited(_, _, _)
RECURSIVE WalkInto(_, _, _, _)

\* _walk_limited(root_dir, max_depth), lines 723-733, from the directory at
\* dirpath on: os.walk yields the directory before those below it; a
\* directory at max_depth has its dirnames emptied, so that os.walk does not
\* go below it, and hidden directories are dropped from dirnames. The depth
\* of a directory is the number of separators that its path has more than
\* the root: the number of names from the workspace down.
walk_limited(listing_, dirpath, max_depth_) ==
    LET depth == Len(dirpath)
        dirs == SelectSeq(listing_, LAMBDA e : e.isdir)
        files == SelectSeq(listing_, LAMBDA e : ~e.isdir)
        kept == IF depth >= max_depth_ THEN <<>>
                ELSE SelectSeq(dirs, LAMBDA e : ~startswith(e.name, <<".">>))
    IN  <<[dirpath |-> dirpath, dirnames |-> NamesOf(kept),
           filenames |-> NamesOf(files)]>>
            \o WalkInto(kept, 1, dirpath, max_depth_)

\* os.walk goes into the directories left in dirnames, in their order.
WalkInto(kept, i, dirpath, max_depth_) ==
    IF i > Len(kept) THEN <<>>
    ELSE walk_limited(kept[i].listing, Append(dirpath, kept[i].name), max_depth_)
            \o WalkInto(kept, i + 1, dirpath, max_depth_)

\* Line 739-740: the name ends in .pkg or .mpkg, whatever the case.
IsPackageName(name_) ==
    \/ endswith(lower(name_), <<".", "p", "k", "g">>)
    \/ endswith(lower(name_), <<".", "m", "p", "k", "g">>)

\* Lines 738-743: the candidates of one directory of the walk, from
\* dirnames + filenames. relpath.count(os.sep) is one less than the number
\* of names of relpath.
CandidatesIn(step) ==
    LET names == SelectSeq(step.dirnames \o step.filenames, IsPackageName)
    IN  [i \in 1..Len(names) |->
            [depth |-> Len(step.dirpath), relpath |-> Append(step.dirpath, names[i])]]

RECURSIVE CandidatesOf(_)
\* Lines 736-743: candidates after the loop over the walk
CandidatesOf(walk) ==
    IF walk = <<>> THEN <<>>
    ELSE CandidatesIn(Head(walk)) \o CandidatesOf(Tail(walk))

\* A variant of sorted() that leaves the list as it is.
Unsorted(candidates_) == candidates_

RECURSIVE sorted(_)
\* sorted(candidates, key=lambda t: t[0]), line 746: the sort is stable, a
\* candidate goes behind those of its depth that come before it.
sorted(candidates_) ==
    IF candidates_ = <<>> THEN <<>>
    ELSE LET n == Len(candidates_)
             last == candidates_[n]
             rest == sorted(SubSeq(candidates_, 1, n - 1))
             k == Cardinality({i \in 1..(n - 1) : rest[i].depth <= last.depth})
         IN  SubSeq(rest, 1, k) \o <<last>> \o SubSeq(rest, k + 1, n - 1)

\* _find_first_package(root_dir), lines 735-747: pkg_relpath, or None
find_first_package(listing_) ==
    LET candidates_ == CandidatesOf(walk_limited(listing_, <<>>, max_depth))
    IN  IF candidates_ = <<>> THEN None
        ELSE Some(sorted(candidates_)[1].relpath)

RECURSIVE Exists(_, _)
\* os.path.exists of the path below the directory with this listing
Exists(listing_, path) ==
    \/ path = <<>>
    \/ \E i \in 1..Len(listing_) :
          /\ listing_[i].name = Head(path)
          /\ Exists(listing_[i].listing, Tail(path))

\* Lines 769-775: the first entry of listdir(mountpoint) that
\* hasValidInstallerItemExt, or None
FirstInstallerItem(listing_) ==
    LET valid == SelectSeq(NamesOf(listing_), hasValidInstallerItemExt)
    IN  IF valid = <<>> THEN None ELSE Some(<<Head(valid)>>)

\* get_catalog_info_from_path(pkgpath, options), lines 701-707, with
\* getPackageMetaData, which returns {} at line 887 for a path that has no
\* package extension and else a dictionary with a name: whether cataloginfo
\* is not empty.
HasCatalogInfo(listing_, path) ==
    Exists(listing_, path) /\ hasValidPackageExt(path[Len(path)])

\* What get_catalog_info_from_dmg returned: the package whose metadata it
\* is, package_path of that metadata where it has the key, and the
\* pkg_relpath of _find_first_package where it was called.
Picked(outcome_, pkgitem_, package_path_, pkg_relpath_) ==
    [outcome |-> outcome_, pkgitem |-> pkgitem_, package_path |-> package_path_,
     pkg_relpath |-> pkg_relpath_]

\* Lines 809-826 and 863-864 on an image without a directory whose name
\* ends in .app: no iteminfo, and cataloginfo is returned empty.
NothingPicked(pkg_relpath_) == Picked("nothing", None, None, pkg_relpath_)

\* Lines 764-768: options.pkgname is given.
FromPkgname(listing_, pkgname_) ==
    IF HasCatalogInfo(listing_, pkgname_)
    THEN Picked("entry", Some(pkgname_), Some(pkgname_), None)
    ELSE NothingPicked(None)

\* Lines 769-784: neither options.pkgname nor options.item is given.
FromSearch(listing_) ==
    LET first == FirstInstallerItem(listing_)
        pkg_relpath == find_first_package(listing_)
    IN  IF Has(first) /\ HasCatalogInfo(listing_, Val(first))
        THEN Picked("entry", first, None, None)
        ELSE IF Has(pkg_relpath) /\ HasCatalogInfo(listing_, Val(pkg_relpath))
        THEN Picked("entry", pkg_relpath, pkg_relpath, pkg_relpath)
        ELSE NothingPicked(pkg_relpath)

(***************************************************************************)
(* Search scenario: get_catalog_info_from_dmg(dmgpath, options) without    *)
(* options.item, on an image that mountdmg extracted and that holds no     *)
(* application.                                                            *)
(***************************************************************************)

\* Deepest directory of an image, counted in names from the workspace
MaxDeep == 6

FileMpkg == <<"C", ".", "M", "P", "K", "G">>
DotPkg == <<".", "p", "k", "g">>
DirD == <<"d">>
DirE == <<"e">>
Hidden == <<".", "h">>
Bundle == <<"B", ".", "p", "k", "g">>

RECURSIVE Chains(_)
\* The listings of a directory at depth k that holds one directory at most,
\* with a package before it or without one
Chains(k) ==
    {<<>>, <<File(FilePkg)>>, <<Dir(Bundle, <<>>)>>}
        \cup (IF k < MaxDeep
              THEN {<<Dir(DirD, l)>> : l \in Chains(k + 1)}
                     \cup {<<File(FilePkg), Dir(DirD, l)>> : l \in Chains(k + 1)}
              ELSE {})

\* The listings of a directory of the workspace
Level1 ==
    LET one == {File(FilePkg), File(FileMpkg), File(FileTxt), Dir(Bundle, <<>>),
                Dir(Hidden, <<File(FilePkg)>>)}
                \cup {Dir(DirD, l) : l \in Chains(2)}
    IN  {<<>>} \cup {<<e>> : e \in one}
            \cup {p \in one \X one : p[1].name # p[2].name}

\* The workspaces: nothing, one entry, or two entries of which one at least
\* is a file or a directory with one package at most.
Images ==
    LET deep == {Dir(DirD, l) : l \in Level1}
        shallow == {File(FileDmg), File(FilePkg), File(DotPkg), File(FileTxt),
                    Dir(DirE, <<>>), Dir(DirE, <<File(FilePkg)>>),
                    Dir(DirE, <<Dir(DirD, <<File(FilePkg)>>)>>),
                    Dir(Hidden, <<File(FilePkg)>>), Dir(Bundle, <<File(FilePkg)>>)}
        all == deep \cup shallow
    IN  {<<>>} \cup {<<e>> : e \in all}
            \cup {p \in shallow \X all : p[1].name # p[2].name}
            \cup {p \in deep \X shallow : p[1].name # p[2].name}

Pkgnames == {None, Some(<<DirD, FilePkg>>), Some(<<FileTxt>>)}

InitSearch ==
    /\ VerOff /\ CatOff /\ DmgOff /\ RefOff /\ NavOff /\ MkOff /\ ItOff /\ ExOff
    /\ spc = "mounted"
    /\ image \in Images
    /\ optpkgname \in Pkgnames
    /\ picked = <<>>

\* get_catalog_info_from_dmg with options.pkgname
NamedPackage ==
    /\ spc = "mounted"
    /\ Has(optpkgname)
    /\ picked' = FromPkgname(image, Val(optpkgname))
    /\ spc' = "done"
    /\ UNCHANGED <<image, optpkgname, verVars, catVars, dmgVars, refVars, navVars,
                   mkVars, itVars, exVars>>

\* get_catalog_info_from_dmg without options.pkgname
SearchPackage ==
    /\ spc = "mounted"
    /\ ~Has(optpkgname)
    /\ picked' = FromSearch(image)
    /\ spc' = "done"
    /\ UNCHANGED <<image, optpkgname, verVars, catVars, dmgVars, refVars, navVars,
                   mkVars, itVars, exVars>>

NextSearch == NamedPackage \/ SearchPackage

SpecSearch == InitSearch /\ [][NextSearch]_vars

(***************************************************************************)
(* Claims about MunkiLooseVersion (checked under SpecVer)                  *)
(***************************************************************************)

Compared == vpc = "compared"

\* The integers of a dotted numeric string, e.g. 10.6.0 gives <<10, 6, 0>>
NumbersOf(s) ==
    LET runs == SelectSeq(ReSplit(s), LAMBDA x : x # <<".">>)
    IN  [i \in 1..Len(runs) |-> IntOf(runs[i])]

\* Lexicographic comparison of two integer sequences, the shorter one
\* extended with zeros.
PaddedLexCmp(x, y) ==
    LET m == IF Len(x) > Len(y) THEN Len(x) ELSE Len(y)
        xe == [i \in 1..m |-> IF i <= Len(x) THEN x[i] ELSE 0]
        ye == [i \in 1..m |-> IF i <= Len(y) THEN y[i] ELSE 0]
        diff == {i \in 1..m : xe[i] # ye[i]}
    IN  IF diff = {} THEN 0
        ELSE LET i == CHOOSE k \in diff : \A j \in diff : k <= j
             IN  IF xe[i] < ye[i] THEN -1 ELSE 1

\* C1: versions built from a dotted numeric string s and from s + '.0'
\* compare equal (MunkiLooseVersion('10.6') == MunkiLooseVersion('10.6.0')).
C1_TrailingZeroEqual ==
    (Compared /\ DottedNumeric(va) /\ vb = va \o DotZero) => cmps.ab = 0

PaddedLen == IF Len(objs[1].version) > Len(objs[2].version)
             THEN Len(objs[1].version) ELSE Len(objs[2].version)
PaddedA == pad(objs[1].version, PaddedLen)
PaddedB == pad(objs[2].version, PaddedLen)

\* i is the first position at which the padded lists differ, and one list
\* has an integer there and the other a text.
FirstDiffMixed(i) ==
    /\ PaddedA[i] # PaddedB[i]
    /\ \A j \in 1..(i - 1) : PaddedA[j] = PaddedB[j]
    /\ PaddedA[i].isint # PaddedB[i].isint

C4_TotalPreorder ==
    Compared =>
        /\ cmps.aa = 0
        /\ cmps.ab \in {-1, 0, 1}
        /\ cmps.ba = 0 - cmps.ab
        /\ LET fromA == CompareTable[va]
               fromB == CompareTable[vb]
           IN  \A c \in VerInputs :
                  /\ (cmps.ab < 0 /\ fromB[c] < 0) => fromA[c] < 0
                  /\ (cmps.ab <= 0 /\ fromB[c] <= 0) => fromA[c] <= 0

\* a < b < c with a and b decided by an integer against a text.
C4_Witness ==
    /\ Compared
    /\ cmps.ab < 0
    /\ \E i \in 1..PaddedLen : FirstDiffMixed(i)
    /\ \E c \in VerInputs : CompareTable[vb][c] < 0

\* C5: str(MunkiLooseVersion(s)) is exactly s.
C5_StrVerbatim == vpc # "input" => Str(objs[1]) = va

(***************************************************************************)
(* Claims about get_catalog_info_from_dmg (checked under SpecDmg)          *)
(***************************************************************************)

\* C6: after any call of get_catalog_info_from_dmg, whether it returned an
\* entry, returned nothing or raised, the workspace directory made for the
\* call no longer exists, also when the content was extracted into _inner.
C6_WorkspaceRemoved == dpc = "done" => workspace # "exists"

(***************************************************************************)
(* Claims about the receipt extraction (checked under SpecRefs)            *)
(***************************************************************************)

\* C7: the recursion through parsePkgRefs and getReceiptInfo never descends
\* again into a package path that is already being visited: no path is
\* twice among the calls in progress.
C7_NoRevisit ==
    \A i, j \in 1..Len(stack) : i # j => stack[i].pkg # stack[j].pkg

(***************************************************************************)
(* Claims about find_matching_pkginfo (checked under SpecCat)              *)
(***************************************************************************)

\* find_matching_pkginfo returned after make_catalog_db built the index.
Looked == cpc = "done" /\ caterr = "none"

\* The snapshot entry find_matching_pkginfo returned.
Returned == catalogitems[matched.index + 1]

\* The candidate is one of the entries of the snapshot.
CandidateInSnapshot == \E i \in 1..Len(catalogitems) : catalogitems[i] = pkginfo

\* The first receipt of the candidate that has a packageid has a version too.
FirstPkgIdVersioned ==
    \E i \in 1..Len(pkginfo.receipts) :
        /\ Has(pkginfo.receipts[i].packageid)
        /\ Has(pkginfo.receipts[i].version)
        /\ \A j \in 1..(i - 1) : ~Has(pkginfo.receipts[j].packageid)

\* The call returned an entry with the receipt packageids of the candidate.
ReturnedSamePkgIds ==
    /\ matched.kind = "match"
    /\ SetOf(PkgIds(Returned.receipts)) = SetOf(PkgIds(pkginfo.receipts))

\* The call returned an entry with the hash of the candidate.
ReturnedSameHash ==
    /\ matched.kind = "match"
    /\ Returned.installer_item_hash = pkginfo.installer_item_hash

SameHashPositions ==
    {i \in 1..Len(catalogitems) :
        /\ Has(pkginfo.installer_item_hash)
        /\ catalogitems[i].installer_item_hash = pkginfo.installer_item_hash}

\* C9: when the candidate has the hash of at least one snapshot entry, the
\* call returns the lowest-positioned entry with that hash, whatever the
\* receipts, installs, profile identifier and file name of the candidate.
C9_HashFirst ==
    (Looked /\ SameHashPositions # {}) =>
        /\ matched.kind = "match"
        /\ matched.step = "hash"
        /\ \A i \in SameHashPositions : matched.index + 1 <= i
        /\ matched.index + 1 \in SameHashPositions

\* Two entries have the candidate's hash, and the first of them has other
\* receipt packageids than the candidate.
C9_Witness ==
    /\ Looked
    /\ Cardinality(SameHashPositions) = 2
    /\ matched.step = "hash"
    /\ SetOf(PkgIds(Returned.receipts)) # SetOf(PkgIds(pkginfo.receipts))
    /\ PkgIds(pkginfo.receipts) # <<>>

\* The packageids of the candidate's receipts.
CandidatePkgIds == PkgIds(pkginfo.receipts)

\* The version strings of the receipts in the generated catalogs.
CatVersions == {Ver2_0, Ver2_0_1}

\* <<position, version>> of every snapshot entry filed under the candidate's
\* first packageid whose set of packageids is the candidate's.
ReceiptCandidates ==
    {c \in (1..Len(catalogitems)) \X CatVersions :
        /\ SetOf(PkgIds(catalogitems[c[1]].receipts)) = SetOf(CandidatePkgIds)
        /\ \E k \in 1..Len(catalogitems[c[1]].receipts) :
              /\ catalogitems[c[1]].receipts[k].packageid = Some(CandidatePkgIds[1])
              /\ catalogitems[c[1]].receipts[k].version = Some(c[2])}

\* Version v is newer than w: greater as zero-padded integer sequences.
Newer(v, w) == PaddedLexCmp(NumbersOf(v), NumbersOf(w)) > 0

\* c is visited before d: under a newer version, or under the same version
\* and earlier in the snapshot.
VisitedBefore(c, d) ==
    \/ Newer(c[2], d[2])
    \/ c[2] = d[2] /\ c[1] < d[1]

\* No hash matched and the candidate's first packageid is indexed.
ReceiptStepTaken ==
    /\ Looked
    /\ HashStep(catdb, pkginfo) = NoMatch
    /\ CandidatePkgIds # <<>>
    /\ DictHas(catdb.receipts, CandidatePkgIds[1])

\* C10: when no hash matches and the candidate's first packageid is indexed,
\* the versions filed under it are visited from newest to oldest and the
\* entries of a version in snapshot order, and the first entry with the
\* candidate's set of packageids is returned; an entry that shares only the
\* first packageid is not returned by this step.
C10_NewestFirst ==
    ReceiptStepTaken =>
        IF ReceiptCandidates = {} THEN matched.step # "receipts"
        ELSE /\ matched.step = "receipts"
             /\ \E c \in ReceiptCandidates :
                   /\ c[1] = matched.index + 1
                   /\ \A d \in ReceiptCandidates : ~VisitedBefore(d, c)

(***************************************************************************)
(* Claims about the later steps of find_matching_pkginfo (checked under    *)
(* SpecCatVer)                                                             *)
(***************************************************************************)

\* The version buckets the step that matched looked into: <<version,
\* indexes>> pairs of the application path, the profile identifier or the
\* file name of the candidate.
MatchedBuckets ==
    IF matched.step = "installs"
    THEN DictGet(catdb.applications, Val(AppList(pkginfo.installs)[1].path))
    ELSE IF matched.step = "profile"
    THEN DictGet(catdb.profiles, Val(pkginfo.PayloadIdentifier))
    ELSE DictGet(catdb.installer_items, basename(Val(pkginfo.installer_item_location)))

LaterStepMatched ==
    /\ Looked
    /\ matched.kind = "match"
    /\ matched.step \in {"installs", "profile", "filename"}

\* C11: in the application path, profile identifier and file name steps the
\* entry returned is the first one filed under the newest version, the
\* version no other version filed under the looked-up key is greater than.
C11_NewestBucket ==
    LaterStepMatched =>
        \E k \in 1..Len(MatchedBuckets) :
            /\ MatchedBuckets[k][2][1] = matched.index
            /\ \A j \in 1..Len(MatchedBuckets) :
                  ~Newer(MatchedBuckets[j][1], MatchedBuckets[k][1])


\* The five identities of find_matching_pkginfo in the order of lines 1603-1660
StepOrder == <<"hash", "receipts", "installs", "profile", "filename">>

\* The snapshot entries the candidate shares an identity with, read from the
\* snapshot itself: the same hash; the same set of packageids, the first of
\* them in a receipt with a version; an application installed at the path of
\* the candidate's first application; the same profile identifier; an
\* installer item filed under the candidate's file name.
SharesIdentity(step, i) ==
    LET item == catalogitems[i]
        pkgids == PkgIds(pkginfo.receipts)
        applist == AppList(pkginfo.installs)
    IN  CASE step = "hash" ->
                /\ Has(pkginfo.installer_item_hash)
                /\ item.installer_item_hash = pkginfo.installer_item_hash
          [] step = "receipts" ->
                /\ pkgids # <<>>
                /\ SamePkgIds(PkgIds(item.receipts), pkgids)
                /\ \E k \in 1..Len(item.receipts) :
                      /\ item.receipts[k].packageid = Some(pkgids[1])
                      /\ Has(item.receipts[k].version)
          [] step = "installs" ->
                /\ applist # <<>>
                /\ \E k \in 1..Len(item.installs) :
                      /\ item.installs[k].type = Some("application")
                      /\ item.installs[k].path = applist[1].path
          [] step = "profile" ->
                /\ Has(pkginfo.PayloadIdentifier)
                /\ item.PayloadIdentifier = pkginfo.PayloadIdentifier
          [] step = "filename" ->
                /\ Has(item.installer_item_location)
                /\ InstallerItemKey(Val(item.installer_item_location), NO_VERSION).name
                      = basename(IF Has(pkginfo.installer_item_location)
                                 THEN Val(pkginfo.installer_item_location) ELSE <<>>)

IdentityMatches(step) == \E i \in 1..Len(catalogitems) : SharesIdentity(step, i)

\* The first identity of StepOrder that some snapshot entry shares
FirstIdentity ==
    IF \E k \in 1..Len(StepOrder) : IdentityMatches(StepOrder[k])
    THEN StepOrder[CHOOSE k \in 1..Len(StepOrder) :
                     /\ IdentityMatches(StepOrder[k])
                     /\ \A j \in 1..(k - 1) : ~IdentityMatches(StepOrder[j])]
    ELSE "none"

\* C12: when find_matching_pkginfo returns, its result comes from the first
\* identity, in the order hash, receipts, application path, profile
\* identifier, file name, that some snapshot entry shares with the candidate:
\* the entry returned shares that identity, no later identity is used while
\* an earlier one matches, and the result is empty exactly when no identity
\* matches.
C12_FixedOrder ==
    (Looked /\ matched.kind # "raise") =>
        /\ matched.step = FirstIdentity
        /\ (matched.kind = "none") = (\A k \in 1..Len(StepOrder) :
                                        ~IdentityMatches(StepOrder[k]))
        /\ matched.kind = "match" => SharesIdentity(matched.step, matched.index + 1)

\* The application path decides although the profile identifier matches
\* an earlier entry of the snapshot.
C12_Witness ==
    /\ Looked
    /\ matched.step = "installs"
    /\ matched.index = 1
    /\ SharesIdentity("profile", 1)

\* make_catalog_db returned the index.
Built == cpc = "match"

WellFormedReceipt(receipt) ==
    IsDict(receipt) /\ Has(receipt.packageid) /\ Has(receipt.version)

WellFormedInstall(install) ==
    IsDict(install) /\ install.type = Some("application") /\ Has(install.path)

\* position is listed under key and vers in a table by version
Filed(table, key, vers, position) ==
    /\ DictHas(table, key)
    /\ DictHas(DictGet(table, key), vers)
    /\ position \in SetOf(DictGet(DictGet(table, key), vers))

\* Every well-formed receipt and install record of the snapshot is filed
\* under the position of its entry, and so is the hash of every entry.
WellFormedIndexed ==
    \A i \in 1..Len(catalogitems) :
        LET item == catalogitems[i] IN
        /\ \A k \in 1..Len(item.receipts) :
              WellFormedReceipt(item.receipts[k]) =>
                  Filed(catdb.receipts, Val(item.receipts[k].packageid),
                        Val(item.receipts[k].version), i - 1)
        /\ \A k \in 1..Len(item.installs) :
              WellFormedInstall(item.installs[k]) =>
                  Filed(catdb.applications, Val(item.installs[k].path),
                        Val(item.version), i - 1)
        /\ Has(item.installer_item_hash) =>
              (i - 1) \in SetOf(DictGet(catdb.hashes, Val(item.installer_item_hash)))

\* C13: on a snapshot whose entries have receipts without packageid, install
\* records without path, or receipt and install data that are no records,
\* make_catalog_db raises nothing, and the index it returns files every
\* well-formed receipt, install record and entry.
C13_SkipsMalformed ==
    /\ caterr # "TypeError"
    /\ Built => WellFormedIndexed

\* The positions listed in a table by key, and in a table by key and version
Positions(table) == UNION {SetOf(table[k][2]) : k \in 1..Len(table)}

VersionedPositions(table) == UNION {Positions(table[k][2]) : k \in 1..Len(table)}

ReferencedPositions(db) ==
    Positions(db.hashes) \cup VersionedPositions(db.receipts)
        \cup VersionedPositions(db.applications)
        \cup VersionedPositions(db.profiles)
        \cup VersionedPositions(db.installer_items)

\* Nothing but the name can be missing in the entry.
WellFormedRecords(item) ==
    /\ Iterable(item.receipts) /\ Iterable(item.installs)
    /\ \A k \in 1..Len(item.receipts) : WellFormedReceipt(item.receipts[k])
    /\ \A k \in 1..Len(item.installs) : WellFormedInstall(item.installs[k])

\* A snapshot of two entries with well-formed records, the one at position
\* named (from 1) with a name and the other one without
OneNameless(named) ==
    /\ Len(catalogitems) = 2
    /\ \A i \in 1..2 : /\ WellFormedRecords(catalogitems[i])
                        /\ Has(catalogitems[i].name) = (i = named)

\* C14: on a snapshot of one well-formed entry and one entry without a name
\* make_catalog_db raises nothing and the tables of the index it returns
\* list the position of the well-formed entry only.
C14_NamelessNotIndexed ==
    \A named \in 1..2 :
        OneNameless(named) =>
            /\ caterr # "TypeError"
            /\ Built => ReferencedPositions(catdb) = {named - 1}

(***************************************************************************)
(* Claims about receipt extraction (checked under SpecRefs)                *)
(***************************************************************************)

\* getReceiptInfo returned.
Extracted == rpc = "done"

\* C15: the receipts getReceiptInfo returns for a package never have two
\* receipts with the same packageid.
C15_UniquePackageIds ==
    Extracted =>
        \A i, j \in 1..Len(receiptinfo) :
            i # j => receiptinfo[i].packageid # receiptinfo[j].packageid

\* 7z was there and extracted every package it was run on.
AllExtracted ==
    \A message \in stderr : message[2] \notin {NotInstalled, ErrorExtracting}

\* C16: a manifest of the package that is no XML leaves no receipt, and the
\* receipts of the other manifests of the package are returned all the
\* same: every PackageInfo file of the package that can be parsed has its
\* receipt in the result.
C16_OtherManifestsKept ==
    (Extracted /\ AllExtracted) =>
        \A k \in 1..Len(packages[Root].packageinfos) :
            packages[Root].packageinfos[k].parses =>
                \E i \in 1..Len(receiptinfo) :
                    receiptinfo[i].packageid
                        = Some(packages[Root].packageinfos[k].identifier)

\* C17: when getReceiptInfo has returned, whichever way each call of
\* getFlatPackageInfo ended, none of the directories made at line 1333
\* exists.
C17_PkgtmpRemoved == Extracted => pkgtmp = 0

(***************************************************************************)
(* Claims about nameAndVersion (checked under SpecNav)                     *)
(***************************************************************************)

\* nameAndVersion returned.
Split == npc = "done"

\* C18: the version nameAndVersion returns is empty or starts with a digit.
C18_VersionStartsWithDigit ==
    Split => (nameVers[2] = <<>> \/ IsDigit(nameVers[2][1]))

\* text is digits, '.', digits and then one or more groups of one of
\* '.', 'a', 'b', 'd', 'v' and digits: it starts and ends with a digit, has
\* nothing but digits and these five characters, never two of the five in a
\* row, a '.' as the first of them and at least two of them.
Dotted(text) ==
    LET marks == {k \in 1..Len(text) : text[k] \in {".", "a", "b", "d", "v"}}
    IN  /\ text # <<>>
        /\ IsDigit(text[1]) /\ IsDigit(text[Len(text)])
        /\ \A k \in 1..Len(text) : IsDigit(text[k]) \/ k \in marks
        /\ \A k \in marks : (k + 1) \notin marks
        /\ Cardinality(marks) >= 2
        /\ \A k \in marks : (\A j \in marks : k <= j) => text[k] = "."

\* The places <<first, last>> of the substrings of aString that are Dotted
DottedAt ==
    {place \in (1..Len(aString)) \X (1..Len(aString)) :
        place[1] <= place[2] /\ Dotted(SubSeq(aString, place[1], place[2]))}

\* The first of them, to its longest extent
FirstDotted ==
    CHOOSE place \in DottedAt :
        \A other \in DottedAt :
            \/ place[1] < other[1]
            \/ place[1] = other[1] /\ place[2] >= other[2]

\* C19: when aString has a substring of digits, '.', digits and one or more
\* groups of (. a b d v) and digits, nameAndVersion returns the first such
\* substring as the version, and as the name what precedes it without the
\* ' ', '.', '-', '_' and 'v' characters at its end.
C19_DottedVersion ==
    (Split /\ DottedAt # {}) =>
        /\ nameVers[2] = SubSeq(aString, FirstDotted[1], FirstDotted[2])
        /\ nameVers[1] = rstrip(SubSeq(aString, 1, FirstDotted[1] - 1),
                                {" ", ".", "-", "_", "v"})

\* 'MicrosoftOffice2008v12.2.1' gives ('MicrosoftOffice2008', '12.2.1'): the
\* 'v' before the version is removed from the name.
C19_Witness ==
    /\ Split
    /\ DottedAt # {}
    /\ FirstDotted[1] > 1
    /\ aString[FirstDotted[1] - 1] = "v"
    /\ Len(nameVers[1]) = 19

\* The scan from the end stops at the last character: the string is empty,
\* or ends in a character that is no digit, '.' or '_'.
NoSuffix ==
    aString = <<>> \/ ~(IsDigit(aString[Len(aString)])
                          \/ aString[Len(aString)] \in {".", "_"})

\* C20: when aString has no such substring and the scan from its end takes
\* no character, nameAndVersion returns aString as the name and the empty
\* string as the version.
C20_NoVersion ==
    (Split /\ DottedAt = {} /\ NoSuffix) => nameVers = <<aString, <<>>>>

\* 'plainname' gives ('plainname', '').
C20_Witness ==
    /\ Split
    /\ DottedAt = {}
    /\ NoSuffix
    /\ Len(aString) = 9
    /\ nameVers = <<aString, <<>>>>

(***************************************************************************)
(* Claims about makepkginfo (checked under SpecImport)                     *)
(***************************************************************************)

\* The pkginfos makepkginfo returned
Made == {k \in 1..Len(entries) : entries[k].error = "none"}

\* The version strings minimum_os_version is derived from: the minosversion
\* of every install record, the floor and the value extraction has set.
MinOsCandidates ==
    {Val(catinfo.installs[i].minosversion) :
        i \in {j \in 1..Len(catinfo.installs) : Has(catinfo.installs[j].minosversion)}}
    \cup {default_minosversion}
    \cup {Val(m) : m \in {catinfo.minimum_os_version} \ {None}}

\* C21: unless the installer type is stage_os_installer, the
\* minimum_os_version of the pkginfo makepkginfo returns is one of the
\* version strings it is derived from (the minosversion of every install
\* record, the floor 10.4.0, the minimum_os_version already there), and none
\* of them is greater under the version ordering.
C21_GreatestMinimumOs ==
    \A k \in Made :
        entries[k].installer_type # Some("stage_os_installer")
        => /\ entries[k].minimum_os_version \in MinOsCandidates
           /\ \A v \in MinOsCandidates : ~Newer(v, entries[k].minimum_os_version)

\* The positions of the installer item path where the text /pkgs/ starts
PkgsBoundaries ==
    {i \in 1..(Len(installeritem) - 5) :
        SubSeq(installeritem, i, i + 5) = SlashPkgs \o <<"/">>}

\* The text of the installer item path after position i
PathAfter(i) == SubSeq(installeritem, i + 1, Len(installeritem))

\* The position of the last slash of the installer item path, 0 without one
LastSlash ==
    CHOOSE i \in 0..Len(installeritem) :
        /\ i > 0 => installeritem[i] = "/"
        /\ \A j \in (i + 1)..Len(installeritem) : installeritem[j] # "/"

\* C26: the installer_item_location of the pkginfo makepkginfo returns is the
\* text of the installer item path after the last /pkgs/ in it, and the file
\* name (the text after the last slash) when the path holds no /pkgs/.
C26_LocationAfterLastPkgs ==
    \A k \in Made :
        installeritem # <<>>
        => entries[k].installer_item_location =
              Some(IF PkgsBoundaries = {} THEN PathAfter(LastSlash)
                   ELSE PathAfter(5 + CHOOSE i \in PkgsBoundaries :
                                          \A j \in PkgsBoundaries : j <= i))

\* A pkginfo is made for a path with two directories named pkgs and a
\* directory between the deeper one and the file.
C26_Witness ==
    /\ Made # {}
    /\ Cardinality(PkgsBoundaries) = 2
    /\ Val(entries[1].installer_item_location) # PathAfter(LastSlash)

\* The pkginfo without the time it was made at
Undated(entry) == [entry EXCEPT !.metadata.creation_date = 0]

C24_ErrorKindsTold ==
    cpc = "done"
    => /\ caterr = "read" => matched # OnCatalogDBException
       /\ caterr = "decode" => matched # OnCatalogReadException

Indexed == cpc \in {"match", "done"} /\ caterr = "none"

\* Every position of every bucket of the table is filed under the version
\* of the entry at that position.
FiledUnderOwnVersion(table) ==
    \A k \in 1..Len(table) :
        \A b \in 1..Len(table[k][2]) :
            \A p \in 1..Len(table[k][2][b][2]) :
                table[k][2][b][1] = Val(catalogitems[table[k][2][b][2][p] + 1].version)

\* C29: in the index make_catalog_db builds, every position in the table of
\* application paths and in the table of profile identifiers is filed under
\* the 'version' of the entry at that position, whatever the
\* installer_item_location of the entry.
C29_FiledUnderOwnVersion ==
    Indexed => FiledUnderOwnVersion(catdb.applications)
               /\ FiledUnderOwnVersion(catdb.profiles)

\* The candidate has an installer_item_location whose file name is that of
\* the installer_item_location of an entry of the snapshot.
SameBasename ==
    /\ Has(pkginfo.installer_item_location)
    /\ \E i \in 1..Len(catalogitems) :
          /\ Has(catalogitems[i].installer_item_location)
          /\ basename(Val(catalogitems[i].installer_item_location))
                = basename(Val(pkginfo.installer_item_location))

\* The steps before the file name step match nothing.
NoEarlierMatch ==
    /\ HashStep(catdb, pkginfo) = NoMatch
    /\ ReceiptStep(catdb, pkginfo) = NoMatch
    /\ ~InstallsRaise(pkginfo)
    /\ AppStep(catdb, pkginfo) = NoMatch
    /\ ProfileStep(catdb, pkginfo) = NoMatch

\* C30: when the candidate and an entry of the snapshot have the same file
\* name in installer_item_location and the candidate matches nothing by
\* hash, receipts, application path or profile identifier,
\* find_matching_pkginfo returns an entry, found by the file name, also when
\* the file name holds a version after a '-'.
C30_FilenameMatch ==
    Looked /\ SameBasename /\ NoEarlierMatch
    => matched.kind = "match" /\ matched.step = "filename"

(***************************************************************************)
(* Claims about the item of a disk image (checked under SpecItem)          *)
(***************************************************************************)

\* The file or directory options.item leads to from the workspace
ItemReached == Lookup(disk, <<>>, split(join(Workspace, optitem), "/"))

\* The item is there, in the workspace or below it.
ItemInWorkspace == ItemReached # ENOENT /\ Below(ItemReached, WorkspaceNames)

\* C22: get_catalog_info_from_dmg returns an entry for the item it is given
\* only if the item exists and is in the extraction workspace; for an item
\* that is absent or elsewhere (an absolute path, a path through '..', a
\* directory next to the workspace whose name starts with its name) it
\* raises the item-not-found error and returns no entry.
C22_ItemInWorkspace ==
    [][ipc = "mounted"
       => IF ItemInWorkspace
          THEN itemout'.outcome \in {"copy_from_dmg", "PkgInfoGenerationError"}
          ELSE itemout'.outcome = "PkgInfoGenerationError"]_vars

(***************************************************************************)
(* Claims about the exit code of the extraction tool (under SpecEx)        *)
(***************************************************************************)

\* The tool left at least one file and ended with a returncode other than 0.
LeftFilesButFailed ==
    xpc = "run" /\ proc.returncode # 0 /\ dir_has_entries(proc.left)

\* The same run of the tool, had it ended with returncode 0
ExitedZero == Proc(0, proc.left)

\* mountdmg returned what it returns on the same files after returncode 0.
ImageGoesOn ==
    returned.mountdmg # <<>> =>
        returned.mountdmg =
            <<mountdmg(which7z, FALSE, FirstPass(which7z, ExitedZero)).ret>>

FlatPackageGoesOn ==
    returned.getFlatPackageInfo # <<>> =>
        returned.getFlatPackageInfo = <<getFlatPackageInfo(which7z, ExitedZero)>>

RestartInfoGoesOn ==
    returned.getPkgRestartInfo # <<>> =>
        returned.getPkgRestartInfo = <<getPkgRestartInfo(which7z, ExitedZero)>>

\* C23: when the extraction tool ends with a returncode other than 0 but
\* left at least one file, mountdmg, getFlatPackageInfo and
\* getPkgRestartInfo all return what they return on these files after a
\* returncode of 0: the returncode is a warning, the files are processed.
C23_NonZeroExitIsWarning ==
    LeftFilesButFailed => ImageGoesOn /\ FlatPackageGoesOn /\ RestartInfoGoesOn

(***************************************************************************)
(* Claims about the package search (checked under SpecSearch)              *)
(***************************************************************************)

\* Neither options.pkgname nor options.item was given and the loop over the
\* root of the workspace left cataloginfo empty: _find_first_package ran.
DeeperSearch ==
    /\ spc = "done"
    /\ ~Has(optpkgname)
    /\ ~(picked.outcome = "entry" /\ ~Has(picked.package_path))

\* The candidates in the order in which the walk came upon them
Found == CandidatesOf(walk_limited(image, <<>>, max_depth))

\* The directories above the entry at relpath
DepthOf(relpath) == Len(relpath) - 1

RECURSIVE PathsBelow(_, _)
\* The paths of all entries below the directory at dirpath with this listing
PathsBelow(listing_, dirpath) ==
    UNION {{Append(dirpath, listing_[i].name)}
              \cup PathsBelow(listing_[i].listing, Append(dirpath, listing_[i].name)) :
           i \in 1..Len(listing_)}

\* The image holds a package below more than max_depth directories.
PackageBeyondBound ==
    \E p \in PathsBelow(image, <<>>) :
        IsPackageName(p[Len(p)]) /\ DepthOf(p) > max_depth

\* C27: when neither a package name nor an item is requested and the root
\* of the workspace gave no package, the package selected is, among the
\* .pkg and .mpkg entries that the recursive search found, one of the least
\* depth below the workspace, and among those of that depth the first that
\* the walk came upon; it lies below 4 directories at most, and it is the
\* package_path of the entry returned.
C27_ShallowestFirstFound ==
    DeeperSearch =>
        /\ Found = <<>> => picked.pkg_relpath = None
        /\ Found # <<>> =>
              \E i \in 1..Len(Found) :
                 /\ picked.pkg_relpath = Some(Found[i].relpath)
                 /\ \A j \in 1..Len(Found) :
                       /\ DepthOf(Found[i].relpath) <= DepthOf(Found[j].relpath)
                       /\ DepthOf(Found[j].relpath) = DepthOf(Found[i].relpath) => i <= j
                 /\ DepthOf(Found[i].relpath) <= max_depth
        /\ picked.outcome = "entry" =>
              picked.package_path = picked.pkg_relpath /\ picked.pkgitem = picked.pkg_relpath

\* A package that the walk came upon first lies deeper than the one
\* selected, and another lies beyond the bound of the search.
C27_Witness ==
    /\ DeeperSearch
    /\ picked.outcome = "entry"
    /\ Len(Found) >= 2
    /\ picked.pkg_relpath # Some(Found[1].relpath)
    /\ PackageBeyondBound


====
